---- MODULE Spec2Model ----
(***************************************************************************)
(* SocialSeed: the phase / risk / approval decision pipeline.              *)
(*                                                                         *)
(*   src/phase_manager.py      PhaseManager, TrafficLightSystem,           *)
(*                             HumanApprovalWorkflow                       *)
(*   src/backend/main.py       SocialSeedOrchestrator.execute_action and   *)
(*                             the approval endpoints                      *)
(*   src/backend/ai_service.py AIServiceProvider risk-verdict parsing      *)
(*   src/backend/database.py   DatabaseManager.get_all_pending_approvals   *)
(*                                                                         *)
(* Units.  Wall-clock time is in whole seconds.  Engagement rates are in   *)
(* thousandths (0.01 is 10).  Risk scores are IEEE doubles in the code;    *)
(* here a score is tenths * ScoreUnit plus the sign of the rounding error  *)
(* the double sum carries (0.2 + 0.1 is 0.30000000000000004 > 0.3), so     *)
(* that every comparison with a threshold literal has the code's outcome.  *)
(***************************************************************************)
EXTENDS Integers, Sequences, FiniteSets, TLC

VARIABLES
    now,                \* datetime.datetime.now(), whole seconds
    accounts,           \* social_accounts rows: account id -> row
    approval_requests,  \* persisted approval requests, in insertion order
    pending_approvals,  \* HumanApprovalWorkflow.pending_approvals (in memory)
    actions,            \* the actions table read by get_all_pending_approvals
    history,            \* rows written by db.log_action_history
    audit,              \* rows written by db.log_phase_progression
    calls,              \* approve/reject calls suspended at an await
    current_session_data,   \* HumanBehaviorSimulator.current_session_data
    platform_health,    \* PlatformHealthMonitor.platform_health
    rate_limit_history, \* PlatformHealthMonitor.rate_limit_history
    usage_tracker,      \* TikTokService.usage_tracker
    ai_service,         \* AIServiceProvider: providers, order and provider_stats
    auth_states,        \* TikTokOAuthService.auth_states: state -> its entry
    issued,             \* values secrets.token_urlsafe has returned so far
    nticks,             \* clock advances so far
    last                \* what the most recent handler did and returned

\* the state of the platform services
platform_state == << platform_health, rate_limit_history, usage_tracker >>

\* the state of the AI provider chain and of the OAuth login service
service_state == << ai_service, auth_states, issued >>

vars == << now, accounts, approval_requests, pending_approvals, actions,
           history, audit, calls, current_session_data, platform_state,
           service_state, nticks, last >>

----------------------------------------------------------------------------
(* Bounds of the model *)

MaxRequests == 2        \* rows in the approval store
MaxTicks == 2           \* clock advances per behaviour
MaxActions == 1         \* rows in the actions table
MaxParked == 1          \* requests parked by execute_action
MaxSleeps == 1          \* execute_action calls that reach the sleep
MaxEvents == 7          \* 429 responses monitored per platform
MaxErrors == 2          \* 4xx / 5xx responses monitored in a row
MaxCalls == 2           \* calls recorded per AI provider
MaxIssued == 2          \* OAuth states issued

(* Units *)

Days(n) == n * 86400
ScoreUnit == 10 * 100   \* one tenth of risk score

NoKey == "<missing>"    \* dict.get on an absent key
NoTime == 0 - 1         \* None where a datetime is expected
NoAccount == "<none>"   \* account_id = None

Accounts == {"a1", "a2"}
Phases == {"phase_1", "phase_2", "phase_3"}
Platforms == {"tiktok", "instagram", "twitter"}

----------------------------------------------------------------------------
(* PhaseManager._calculate_risk_score and get_account_health *)

\* following / max(followers, 1) compared with the literals 5 and 2
FollowFactor(data) ==
    LET m == IF data.followers_count > 1 THEN data.followers_count ELSE 1
    IN  IF data.following_count > 5 * m THEN 4
        ELSE IF data.following_count > 2 * m THEN 2
        ELSE 0

\* variant: the engagement test turned round, a high rate adding risk
EngagementFactor_HighIsRisky(data) ==
    IF data.engagement_rate >= 20 THEN 3
    ELSE IF data.engagement_rate >= 10 THEN 1
    ELSE 0

EngagementFactor(data) ==
    IF data.engagement_rate < 10 THEN 3
    ELSE IF data.engagement_rate < 20 THEN 1
    ELSE 0

ErrorFactor(data) ==
    IF data.consecutive_errors > 5 THEN 3
    ELSE IF data.consecutive_errors > 2 THEN 1
    ELSE 0

\* appended only when last_action_at is set; 0.0 when it is 30 minutes old
RecencyFactor(data, t) ==
    IF data.last_action_at = NoTime THEN 0
    ELSE IF t - data.last_action_at < 1800 THEN 2
    ELSE 0

\* sign of (double sum of the factor list, left to right) - (the literal k/10)
FloatArtefact(f, e, c, r) ==
    IF << f, e, c, r >> \in { << 4, 3, 1, 0 >>, << 4, 3, 0, 2 >>, << 4, 0, 3, 2 >> }
      THEN -1
    ELSE IF << f, e, c, r >> \in
              { << 4, 0, 0, 2 >>, << 2, 1, 3, 0 >>, << 2, 1, 1, 2 >>,
                << 2, 1, 0, 0 >>, << 2, 0, 1, 0 >>, << 0, 3, 1, 2 >>,
                << 0, 1, 3, 2 >>, << 0, 1, 0, 2 >>, << 0, 0, 1, 2 >> }
      THEN 1
    ELSE 0

\* variant: the sum returned without the cap of 1.0
CalculateRiskScore_Uncapped(data, t) ==
    LET f == FollowFactor(data)
        e == EngagementFactor(data)
        c == ErrorFactor(data)
        r == RecencyFactor(data, t)
    IN  (f + e + c + r) * ScoreUnit + FloatArtefact(f, e, c, r)

\* min(sum(risk_factors), 1.0)
CalculateRiskScore(data, t) ==
    LET f == FollowFactor(data)
        e == EngagementFactor(data)
        c == ErrorFactor(data)
        r == RecencyFactor(data, t)
        s == (f + e + c + r) * ScoreUnit + FloatArtefact(f, e, c, r)
    IN  IF s > 10 * ScoreUnit THEN 10 * ScoreUnit ELSE s

GetAccountHealth(data, t) ==
    [ engagement_rate    |-> data.engagement_rate,
      consecutive_errors |-> data.consecutive_errors,
      risk_score         |-> CalculateRiskScore(data, t),
      phase              |-> data.current_phase ]

----------------------------------------------------------------------------
(* TrafficLightSystem *)

\* str.lower() on the verdict strings the model draws
Lower(s) ==
    CASE s = "GREEN" -> "green"
      [] s = "RED" -> "red"
      [] OTHER -> s

RiskStrings == { "green", "yellow", "red", "GREEN", "RED", "orange" }

\* variant: a verdict without the key read as green
ParseRiskLevel_DefaultGreen(llm_response, health, phase) ==
    LET llm_risk == Lower(IF llm_response.risk_level = NoKey THEN "green"
                          ELSE llm_response.risk_level)
    IN  IF phase = "phase_1"
          THEN IF llm_risk \in {"yellow", "red"} THEN "red" ELSE "green"
        ELSE IF phase = "phase_2"
          THEN IF llm_risk = "red" \/ health.risk_score > 6 * ScoreUnit THEN "red"
               ELSE IF llm_risk = "yellow" \/ health.risk_score > 3 * ScoreUnit
                 THEN "yellow"
               ELSE "green"
        ELSE IF llm_risk = "red" \/ health.risk_score > 8 * ScoreUnit THEN "red"
             ELSE IF llm_risk = "yellow" \/ health.risk_score > 5 * ScoreUnit
               THEN "yellow"
             ELSE "green"

\* variant: the PHASE_2 and PHASE_3 thresholds exchanged
ParseRiskLevel_SwappedThresholds(llm_response, health, phase) ==
    LET llm_risk == Lower(IF llm_response.risk_level = NoKey THEN "yellow"
                          ELSE llm_response.risk_level)
    IN  IF phase = "phase_1"
          THEN IF llm_risk \in {"yellow", "red"} THEN "red" ELSE "green"
        ELSE IF phase = "phase_2"
          THEN IF llm_risk = "red" \/ health.risk_score > 8 * ScoreUnit THEN "red"
               ELSE IF llm_risk = "yellow" \/ health.risk_score > 5 * ScoreUnit
                 THEN "yellow"
               ELSE "green"
        ELSE IF llm_risk = "red" \/ health.risk_score > 6 * ScoreUnit THEN "red"
             ELSE IF llm_risk = "yellow" \/ health.risk_score > 3 * ScoreUnit
               THEN "yellow"
             ELSE "green"

\* llm_response.get('risk_level', 'yellow').lower(), then the phase table
ParseRiskLevel(llm_response, health, phase) ==
    LET llm_risk == Lower(IF llm_response.risk_level = NoKey THEN "yellow"
                          ELSE llm_response.risk_level)
    IN  IF phase = "phase_1"
          THEN IF llm_risk \in {"yellow", "red"} THEN "red" ELSE "green"
        ELSE IF phase = "phase_2"
          THEN IF llm_risk = "red" \/ health.risk_score > 6 * ScoreUnit THEN "red"
               ELSE IF llm_risk = "yellow" \/ health.risk_score > 3 * ScoreUnit
                 THEN "yellow"
               ELSE "green"
        ELSE IF llm_risk = "red" \/ health.risk_score > 8 * ScoreUnit THEN "red"
             ELSE IF llm_risk = "yellow" \/ health.risk_score > 5 * ScoreUnit
               THEN "yellow"
             ELSE "green"

----------------------------------------------------------------------------
(* AIServiceProvider: the verdict dicts the LLM path produces *)

NoConfidence == 0 - 1   \* the confidence key is absent

Confidences == { NoConfidence, 0, 85 }     \* hundredths

\* _get_default_risk_result
DefaultRiskResult == [ risk_level |-> "yellow", confidence |-> 0 ]

\* _parse_risk_response: json.loads, then data.get(key, default); the bare
\* except substitutes the default result
ParseRiskResponse(raw) ==
    IF ~raw.parsable THEN DefaultRiskResult
    ELSE [ risk_level |-> IF raw.risk_level = NoKey THEN "yellow" ELSE raw.risk_level,
           confidence |-> IF raw.confidence = NoConfidence THEN 50 ELSE raw.confidence ]

\* assess_risk: provider failure is caught and answered with the default
AssessRisk(provider) ==
    IF provider.kind = "raise" THEN DefaultRiskResult
    ELSE ParseRiskResponse(provider.raw)

RawOutputs ==
    [ parsable : BOOLEAN, risk_level : RiskStrings \cup {NoKey},
      confidence : Confidences ]

ProviderOutcomes ==
    { [ kind |-> "raise", raw |-> [ parsable |-> FALSE, risk_level |-> NoKey,
                                    confidence |-> NoConfidence ] ] }
      \cup { [ kind |-> "text", raw |-> r ] : r \in RawOutputs }

\* What `await self.ai_service.analyze_risk(risk_prompt)` can do: raise, or
\* return a verdict dict in which any key may be absent.
LLMDicts ==
    [ risk_level : RiskStrings \cup {NoKey}, confidence : Confidences ]
      \cup { AssessRisk(p) : p \in ProviderOutcomes }

NoDict == [ risk_level |-> NoKey, confidence |-> NoConfidence ]

LLMOutcomes ==
    { [ kind |-> "raise", dict |-> NoDict ] }
      \cup { [ kind |-> "dict", dict |-> d ] : d \in LLMDicts }

\* the action_type argument: the endpoint passes the JSON string, the type
\* hint of assess_action_risk asks for an ActionType member
ActionTypeInputs == { "follow", "ActionType.FOLLOW" }

HasValueAttr(action_type) == action_type = "ActionType.FOLLOW"

NoAssessment ==
    [ kind |-> "raised", risk_level |-> "none", confidence |-> 0 - 1,
      requires_human_approval |-> FALSE ]

\* variant: approval asked for RED only
AssessActionRisk_RedOnly(data, t, action_type, llm) ==
    IF ~HasValueAttr(action_type) \/ llm.kind = "raise" THEN NoAssessment
    ELSE LET risk_level ==
                 ParseRiskLevel(llm.dict, GetAccountHealth(data, t), data.current_phase)
         IN  [ kind |-> "assessment",
               risk_level |-> risk_level,
               confidence |-> IF llm.dict.confidence = NoConfidence THEN 80
                              ELSE llm.dict.confidence,
               requires_human_approval |-> risk_level = "red" ]

\* assess_action_risk: action_type.value while the context is built, the
\* un-guarded LLM call, then _parse_risk_level and the RiskAssessment
AssessActionRisk(data, t, action_type, llm) ==
    IF ~HasValueAttr(action_type) \/ llm.kind = "raise" THEN NoAssessment
    ELSE LET risk_level ==
                 ParseRiskLevel(llm.dict, GetAccountHealth(data, t), data.current_phase)
         IN  [ kind |-> "assessment",
               risk_level |-> risk_level,
               confidence |-> IF llm.dict.confidence = NoConfidence THEN 80
                              ELSE llm.dict.confidence,
               requires_human_approval |-> risk_level \in {"yellow", "red"} ]

----------------------------------------------------------------------------
(* Persistence of approval requests.  DatabaseManager defines none of       *)
(* create_approval_request, get_approval_request, update_approval_status   *)
(* and get_pending_approvals_for_account; they are modelled as the         *)
(* append/read store the design asks for, in the idiom of the methods the  *)
(* class does define (INSERT per create, fetchrow, UPDATE ... WHERE id).   *)

Approvers == { "admin" }

\* variant: the id built from the account id alone
ApprovalId_AccountOnly(account_id, t) == << account_id, 0 >>

\* f"approval_{account_id}_{int(datetime.datetime.now().timestamp())}"
ApprovalId(account_id, t) == << account_id, t >>

NoId == << NoAccount, NoTime >>
MockId == << "mock-id", 0 >>

NoRow == [ approval_id |-> NoId, account_id |-> NoAccount, status |-> "none",
           resolved_by |-> "", requested_at |-> NoTime ]

CreateApprovalRequest(rows, request) == Append(rows, request)

GetApprovalRequest(rows, approval_id) ==
    IF \E i \in DOMAIN rows : rows[i].approval_id = approval_id
      THEN rows[CHOOSE i \in DOMAIN rows :
                  /\ rows[i].approval_id = approval_id
                  /\ \A j \in DOMAIN rows : rows[j].approval_id = approval_id => i <= j]
      ELSE NoRow

UpdateApprovalStatus(rows, approval_id, status, approver_id) ==
    [ i \in DOMAIN rows |->
        IF rows[i].approval_id = approval_id
          THEN [ rows[i] EXCEPT !.status = status, !.resolved_by = approver_id ]
          ELSE rows[i] ]

IsPendingRowOf(account_id, row) ==
    row.status = "pending" /\ row.account_id = account_id

GetPendingApprovalsForAccount(rows, account_id) ==
    LET Keep(row) == IsPendingRowOf(account_id, row)
        kept == SelectSeq(rows, Keep)
    IN  [ i \in DOMAIN kept |-> kept[i].approval_id ]

(* DatabaseManager.log_action and get_all_pending_approvals: the actions   *)
(* table, joined with social_accounts, newest first.                       *)

ActionRowId(n) == << "action", n >>

LogActionRow(tbl, account_id, status) ==
    Append(tbl, [ id |-> ActionRowId(Len(tbl) + 1), account_id |-> account_id,
                  status |-> status ])

Reverse(seq) == [ i \in DOMAIN seq |-> seq[Len(seq) + 1 - i] ]

GetAllPendingApprovals(tbl, accts) ==
    LET Keep(row) == row.status = "pending" /\ row.account_id \in DOMAIN accts
        kept == Reverse(SelectSeq(tbl, Keep))
    IN  [ i \in DOMAIN kept |-> kept[i].id ]

----------------------------------------------------------------------------
(* HumanApprovalWorkflow *)

NewRequest(account_id, t) ==
    [ approval_id |-> ApprovalId(account_id, t), account_id |-> account_id,
      status |-> "pending", resolved_by |-> "", requested_at |-> t ]

\* variants: the guard without the status test, and no guard at all
IsResolvable_AnyStatus(approval) == approval # NoRow

IsResolvable_Always(approval) == TRUE

\* the guard of approve_action and of reject_action
IsResolvable(approval) == approval # NoRow /\ approval.status = "pending"

Without(map, approval_id) == [ k \in DOMAIN map \ {approval_id} |-> map[k] ]

\* get_pending_approvals: the account filter is tested for truthiness
GetPendingApprovals(rows, tbl, accts, account_id) ==
    IF account_id # NoAccount
      THEN GetPendingApprovalsForAccount(rows, account_id)
      ELSE GetAllPendingApprovals(tbl, accts)

\* is_action_approved: True, False, or None (unknown id, or still pending)
IsActionApproved(rows, approval_id) ==
    LET approval == GetApprovalRequest(rows, approval_id)
    IN  IF approval = NoRow THEN "none"
        ELSE IF approval.status = "approved" THEN "true"
        ELSE IF approval.status = "rejected" THEN "false"
        ELSE "none"

----------------------------------------------------------------------------
(* What the last handler did *)

LastNone ==
    [ op |-> "none", account |-> NoAccount, id |-> NoId, ret |-> "none",
      http |-> 0, listing |-> << >>, action_type |-> "",
      force |-> FALSE, llm |-> [ kind |-> "none", dict |-> NoDict ],
      phase |-> "none", risk_score |-> 0 - 1, assessment |-> NoAssessment,
      status |-> "none", trace |-> << >>, delay |-> 0, break_duration |-> 0,
      platform |-> "", backoff_seconds |-> 0, actions_in_session |-> 0,
      error |-> {}, result |-> << >>, last_action_time |-> NoTime,
      draw |-> << >>, working |-> {}, state |-> 0 ]

Resolved(op, approval_id, ok, via) ==
    [ LastNone EXCEPT !.op = op, !.id = approval_id,
                      !.ret = IF ok THEN "true" ELSE "false",
                      !.http = IF via = "method" THEN 0
                               ELSE IF ok THEN 200 ELSE 404 ]

----------------------------------------------------------------------------
(* approve_action / reject_action calls in flight.  Each `await` is a place *)
(* where the event loop may run another call.                               *)

CallIds == { "c1", "c2" }

IdleCall == [ op |-> "none", id |-> NoId, pc |-> "idle", seen |-> "none",
              ret |-> "none", state |-> 0 ]

StatusWrittenBy(op) == IF op = "approve_action" THEN "approved" ELSE "rejected"

----------------------------------------------------------------------------
(* Actions: HumanApprovalWorkflow and its endpoints *)

\* ids a caller may present: every stored id and one that was never issued
IdsToTry == { approval_requests[i].approval_id : i \in DOMAIN approval_requests }
              \cup { MockId }

Vias == { "method", "endpoint", "endpoint_bad_body" }

\* request_approval(account_id, action_type, risk_assessment, action_data)
RequestApproval(a, action_type) ==
    /\ Len(approval_requests) < MaxRequests
    /\ IF HasValueAttr(action_type)
         THEN /\ approval_requests' =
                    CreateApprovalRequest(approval_requests, NewRequest(a, now))
              /\ pending_approvals' =
                    (ApprovalId(a, now) :> NewRequest(a, now)) @@ pending_approvals
              /\ last' = [ LastNone EXCEPT !.op = "request_approval", !.account = a,
                                           !.action_type = action_type,
                                           !.id = ApprovalId(a, now), !.ret = "id" ]
         ELSE /\ UNCHANGED << approval_requests, pending_approvals >>
              /\ last' = [ LastNone EXCEPT !.op = "request_approval", !.account = a,
                                           !.action_type = action_type,
                                           !.ret = "raised" ]
    /\ UNCHANGED << now, nticks, accounts, actions, history, audit, calls,
                    current_session_data, platform_state,
                    service_state >>

\* variant: the status written to every pending request of the account
Resolve_ByAccount(op, status, approval_id, approver_id, via) ==
    LET approval == GetApprovalRequest(approval_requests, approval_id)
        ok == IsResolvable(approval)
    IN  /\ approval_requests' =
              IF ok THEN [ i \in DOMAIN approval_requests |->
                             IF /\ approval_requests[i].account_id = approval.account_id
                                /\ approval_requests[i].status = "pending"
                               THEN [ approval_requests[i] EXCEPT
                                        !.status = status, !.resolved_by = approver_id ]
                               ELSE approval_requests[i] ]
              ELSE approval_requests
        /\ pending_approvals' =
              IF ok THEN Without(pending_approvals, approval_id) ELSE pending_approvals
        /\ last' = Resolved(op, approval_id, ok, via)

\* variant: the resolved request deleted from the store
Resolve_Deleting(op, status, approval_id, approver_id, via) ==
    LET approval == GetApprovalRequest(approval_requests, approval_id)
        ok == IsResolvable(approval)
        Keep(row) == row.approval_id # approval_id
    IN  /\ approval_requests' =
              IF ok THEN SelectSeq(approval_requests, Keep) ELSE approval_requests
        /\ pending_approvals' =
              IF ok THEN Without(pending_approvals, approval_id) ELSE pending_approvals
        /\ last' = Resolved(op, approval_id, ok, via)

\* variant: the resolved request left in the in-memory map
Resolve_KeepingEntry(op, status, approval_id, approver_id, via) ==
    LET approval == GetApprovalRequest(approval_requests, approval_id)
        ok == IsResolvable(approval)
    IN  /\ approval_requests' =
              IF ok THEN UpdateApprovalStatus(approval_requests, approval_id,
                                              status, approver_id)
              ELSE approval_requests
        /\ UNCHANGED pending_approvals
        /\ last' = Resolved(op, approval_id, ok, via)

\* approve_action / reject_action, called directly or through
\* POST /approvals/{approval_id}/approve|reject (a body without approver_id,
\* or without reason for reject, raises KeyError before the workflow is called)
Resolve(op, status, approval_id, approver_id, via) ==
    IF via = "endpoint_bad_body"
      THEN /\ last' = [ LastNone EXCEPT !.op = op, !.id = approval_id, !.http = 500 ]
           /\ UNCHANGED << approval_requests, pending_approvals >>
      ELSE LET approval == GetApprovalRequest(approval_requests, approval_id)
               ok == IsResolvable(approval)
           IN  /\ approval_requests' =
                     IF ok THEN UpdateApprovalStatus(approval_requests, approval_id,
                                                     status, approver_id)
                     ELSE approval_requests
               /\ pending_approvals' =
                     IF ok THEN Without(pending_approvals, approval_id)
                     ELSE pending_approvals
               /\ last' = Resolved(op, approval_id, ok, via)

ApproveAction(approval_id, approver_id, via) ==
    /\ Resolve("approve_action", "approved", approval_id, approver_id, via)
    /\ UNCHANGED << now, nticks, accounts, actions, history, audit, calls,
                    current_session_data, platform_state,
                    service_state >>

RejectAction(approval_id, approver_id, via) ==
    /\ Resolve("reject_action", "rejected", approval_id, approver_id, via)
    /\ UNCHANGED << now, nticks, accounts, actions, history, audit, calls,
                    current_session_data, platform_state,
                    service_state >>

\* get_pending_approvals(account_id = None)
GetPendingApprovalsCall(account_id) ==
    /\ last' = [ LastNone EXCEPT
                   !.op = "get_pending_approvals", !.account = account_id,
                   !.listing = GetPendingApprovals(approval_requests, actions,
                                                   accounts, account_id) ]
    /\ UNCHANGED << now, nticks, accounts, approval_requests, pending_approvals,
                    actions, history, audit, calls, current_session_data, platform_state,
                    service_state >>

\* is_action_approved(approval_id)
IsActionApprovedCall(approval_id) ==
    /\ last' = [ LastNone EXCEPT
                   !.op = "is_action_approved", !.id = approval_id,
                   !.ret = IsActionApproved(approval_requests, approval_id) ]
    /\ UNCHANGED << now, nticks, accounts, approval_requests, pending_approvals,
                    actions, history, audit, calls, current_session_data, platform_state,
                    service_state >>

\* DatabaseManager.log_action: status defaults to 'pending'
LogAction(a, status) ==
    /\ Len(actions) < MaxActions
    /\ actions' = LogActionRow(actions, a, status)
    /\ last' = [ LastNone EXCEPT !.op = "log_action", !.account = a ]
    /\ UNCHANGED << now, nticks, accounts, approval_requests, pending_approvals,
                    history, audit, calls, current_session_data, platform_state,
                    service_state >>

\* the wall clock moves on
Tick(d) ==
    /\ nticks < MaxTicks
    /\ now' = now + d
    /\ nticks' = nticks + 1
    /\ last' = [ LastNone EXCEPT !.op = "tick" ]
    /\ UNCHANGED << accounts, approval_requests, pending_approvals, actions,
                    history, audit, calls, current_session_data, platform_state,
                    service_state >>

----------------------------------------------------------------------------
(* AIServiceProvider: the provider chain *)

AIProviders == { "deepseek", "groq", "anthropic", "openai" }

\* AIServiceProvider.__init__
NoAIService ==
    [ providers |-> {}, current_provider |-> "None", fallback_providers |-> << >>,
      provider_stats |-> << >> ]

\* initialize / _setup_providers: one provider object per API key that is
\* set; every configured provider but deepseek joins the fallback list, in
\* the order groq, anthropic, openai; deepseek is made the current provider
\* whether or not its key is set
Initialized(keys) ==
    [ providers |-> keys, current_provider |-> "deepseek",
      fallback_providers |->
          SelectSeq(<< "groq", "anthropic", "openai" >>, LAMBDA p : p \in keys),
      provider_stats |-> << >> ]

NoStats == [ success |-> 0, failure |-> 0, total_calls |-> 0 ]

\* variant: only the calls that succeeded are counted
UpdateProviderStats_SuccessOnly(stats, provider, success) ==
    LET old == IF provider \in DOMAIN stats THEN stats[provider] ELSE NoStats
    IN  IF success
          THEN (provider :> [ old EXCEPT !.total_calls = @ + 1, !.success = @ + 1 ])
                   @@ stats
          ELSE stats

\* _update_provider_stats(provider, success)
UpdateProviderStats(stats, provider, success) ==
    LET old == IF provider \in DOMAIN stats THEN stats[provider] ELSE NoStats
    IN  (provider :> [ total_calls |-> old.total_calls + 1,
                       success |-> old.success + (IF success THEN 1 ELSE 0),
                       failure |-> old.failure + (IF success THEN 0 ELSE 1) ])
            @@ stats

\* the for loop of _call_ai_provider from position i of providers_to_try on;
\* `working` are the providers whose generate returns during this call.  The
\* result is the provider that answered ("None" when the loop ran out and
\* the call raises), the providers invoked in order, and the statistics.
RECURSIVE TryProviders(_, _, _, _, _, _)
TryProviders(providers_to_try, i, configured, working, invoked, stats) ==
    IF i > Len(providers_to_try)
      THEN [ answered |-> "None", invoked |-> invoked, stats |-> stats ]
    ELSE LET provider == providers_to_try[i]
         IN  IF provider \notin configured
               THEN TryProviders(providers_to_try, i + 1, configured, working,
                                 invoked, stats)
             ELSE IF provider \in working
               THEN [ answered |-> provider,
                      invoked |-> Append(invoked, provider),
                      stats |-> UpdateProviderStats(stats, provider, TRUE) ]
             ELSE TryProviders(providers_to_try, i + 1, configured, working,
                               Append(invoked, provider),
                               UpdateProviderStats(stats, provider, FALSE))

\* _call_ai_provider(prompt, task_type)
CallAIProvider(working) ==
    LET providers_to_try ==
            << ai_service.current_provider >> \o ai_service.fallback_providers
        run == TryProviders(providers_to_try, 1, ai_service.providers, working,
                            << >>, ai_service.provider_stats)
    IN
    /\ \A p \in DOMAIN run.stats : run.stats[p].total_calls <= MaxCalls
    /\ ai_service' = [ ai_service EXCEPT !.provider_stats = run.stats ]
    /\ last' = [ LastNone EXCEPT
                   !.op = "_call_ai_provider",
                   !.ret = IF run.answered = "None" THEN "raise" ELSE run.answered,
                   !.status = IF run.answered = "None"
                                THEN "All AI providers failed" ELSE "",
                   !.trace = run.invoked,
                   !.working = working ]
    /\ UNCHANGED << now, nticks, accounts, approval_requests, pending_approvals,
                    actions, history, audit, calls, current_session_data,
                    platform_state, auth_states, issued >>

----------------------------------------------------------------------------
(* TikTokOAuthService (src/backend/services/tiktok_oauth.py).  A state is   *)
(* the n-th value secrets.token_urlsafe(32) returned, written n; values of  *)
(* 256 random bits do not repeat.                                           *)

StateLifetime == 10 * 60

\* the state parameters a callback may carry: every state that can be
\* issued and one that never is
CallbackStates == 1..(MaxIssued + 1)

\* generate_auth_url(user_id)
GenerateAuthUrl ==
    LET state == issued + 1
    IN
    /\ issued < MaxIssued
    /\ issued' = state
    /\ auth_states' =
          (state :> [ created_at |-> now, expires_at |-> now + StateLifetime ])
              @@ auth_states
    /\ last' = [ LastNone EXCEPT !.op = "generate_auth_url", !.state = state,
                                 !.ret = "true" ]
    /\ UNCHANGED << now, nticks, accounts, approval_requests, pending_approvals,
                    actions, history, audit, calls, current_session_data,
                    platform_state, ai_service >>

\* variant: a state stays valid through its whole eleventh minute
IsExpired_Late(entry, t) == t > entry.expires_at + 60

\* if datetime.now() > auth_state['expires_at']
IsExpired(entry, t) == t > entry.expires_at

Answered(c, state, ret) ==
    [ IdleCall EXCEPT !.op = "handle_callback", !.pc = "done", !.state = state,
                      !.ret = ret ]

\* handle_callback(code, state) up to `await self._exchange_code_for_token`
HandleCallbackStart(c, state) ==
    LET called == [ LastNone EXCEPT !.op = "handle_callback", !.id = c,
                                    !.state = state ]
    IN
    /\ calls[c].pc \in { "idle", "done" }
    /\ IF state \notin DOMAIN auth_states
         THEN /\ last' = [ called EXCEPT !.ret = "Invalid state parameter" ]
              /\ calls' = [ calls EXCEPT
                              ![c] = Answered(c, state, "Invalid state parameter") ]
              /\ UNCHANGED auth_states
       ELSE IF IsExpired(auth_states[state], now)
         THEN /\ last' = [ called EXCEPT !.ret = "Authorization session expired" ]
              /\ calls' = [ calls EXCEPT
                              ![c] = Answered(c, state, "Authorization session expired") ]
              /\ auth_states' = Without(auth_states, state)
       ELSE /\ last' = [ called EXCEPT !.ret = "suspended" ]
            /\ calls' = [ calls EXCEPT
                            ![c] = [ IdleCall EXCEPT !.op = "handle_callback",
                                                     !.pc = "exchanging",
                                                     !.state = state ] ]
            /\ UNCHANGED auth_states
    /\ UNCHANGED << now, nticks, accounts, approval_requests, pending_approvals,
                    actions, history, audit, current_session_data,
                    platform_state, ai_service, issued >>

\* what TikTok answers to the token exchange and to the user-info request;
\* both helpers turn every failure into a result without success
ExchangeOutcomes == { "Token exchange failed", "User info request failed", "ok" }

\* handle_callback from the token exchange on
HandleCallbackResume(c, outcome) ==
    LET state == calls[c].state
        ret == IF outcome # "ok" THEN outcome
               ELSE IF state \in DOMAIN auth_states THEN "success"
               ELSE \* del self.auth_states[state]: KeyError, caught
                    "Authentication failed"
    IN
    /\ calls[c].op = "handle_callback"
    /\ calls[c].pc = "exchanging"
    /\ auth_states' = IF ret = "success" THEN Without(auth_states, state)
                      ELSE auth_states
    /\ calls' = [ calls EXCEPT ![c] = Answered(c, state, ret) ]
    /\ last' = [ LastNone EXCEPT !.op = "handle_callback", !.id = c,
                                 !.state = state, !.ret = ret ]
    /\ UNCHANGED << now, nticks, accounts, approval_requests, pending_approvals,
                    actions, history, audit, current_session_data,
                    platform_state, ai_service, issued >>

\* cleanup_expired_states()
CleanupExpiredStates ==
    /\ auth_states' =
          [ state \in { x \in DOMAIN auth_states : ~IsExpired(auth_states[x], now) }
              |-> auth_states[state] ]
    /\ last' = [ LastNone EXCEPT !.op = "cleanup_expired_states" ]
    /\ UNCHANGED << now, nticks, accounts, approval_requests, pending_approvals,
                    actions, history, audit, calls, current_session_data,
                    platform_state, ai_service, issued >>

----------------------------------------------------------------------------
(* PlatformHealthMonitor *)

\* the keys of TikTokService.usage_tracker
UsageKinds == { "follows", "likes", "comments", "views" }

RECURSIVE Pow2(_)
Pow2(n) == IF n = 0 THEN 1 ELSE 2 * Pow2(n - 1)

Min(x, y) == IF x < y THEN x ELSE y

\* [ts for ts in seq if ts > cutoff]
Newer(seq, cutoff) == SelectSeq(seq, LAMBDA ts : ts > cutoff)

HistoryOf(hist, platform) ==
    IF platform \in DOMAIN hist THEN hist[platform] ELSE << >>

\* variant: the exponent doubled without the ceiling of one hour
GetBackoffTime_NoCeiling(hist, platform, t) ==
    60 * Pow2(Len(Newer(HistoryOf(hist, platform), t - 60 * 60)))

\* _get_backoff_time(platform)
GetBackoffTime(hist, platform, t) ==
    LET recent_limits == Len(Newer(HistoryOf(hist, platform), t - 60 * 60))
    IN  Min(60 * Pow2(recent_limits), 3600)

\* variant: the event appended and nothing dropped
HandleRateLimit_KeepAll(hist, platform, t) ==
    (platform :> Append(HistoryOf(hist, platform), t)) @@ hist

\* variant: the history pruned and the current event left out
HandleRateLimit_Unrecorded(hist, platform, t) ==
    (platform :> Newer(HistoryOf(hist, platform), t - Days(1))) @@ hist

\* _handle_rate_limit: append now, keep the last 24 hours
HandleRateLimit(hist, platform, t) ==
    (platform :> Newer(Append(HistoryOf(hist, platform), t), t - Days(1))) @@ hist

\* the response time every monitored call reports, in milliseconds
ResponseTime == 2 * 100

NewHealth ==
    [ status |-> "healthy", last_error |-> NoTime, consecutive_errors |-> 0,
      avg_response_time |-> ResponseTime, rate_limit_count |-> 0,
      last_rate_limit |-> NoTime ]

ResponseCodes == { 200, 404, 429, 500 }

\* variant: a rate-limited response counted as an error as well
AfterRateLimit_AsError(health, t) ==
    [ health EXCEPT !.rate_limit_count = @ + 1, !.last_rate_limit = t,
                    !.consecutive_errors = @ + 1 ]

\* health['rate_limit_count'] += 1; health['last_rate_limit'] = now
AfterRateLimit(health, t) ==
    [ health EXCEPT !.rate_limit_count = @ + 1, !.last_rate_limit = t ]

\* monitor_platform_response(platform, response_code, response_time, account_id)
MonitorPlatformResponse(platform, response_code) ==
    LET tracked == IF platform \in DOMAIN platform_health
                     THEN platform_health[platform] ELSE NewHealth
        health == [ tracked EXCEPT
                      !.avg_response_time = (@ + ResponseTime) \div 2 ]
        called == [ LastNone EXCEPT !.op = "monitor_platform_response",
                                    !.platform = platform ]
    IN
    /\ UNCHANGED << now, nticks, accounts, approval_requests, pending_approvals,
                    actions, history, audit, calls, current_session_data,
                    usage_tracker,
                    service_state >>
    /\ IF response_code = 429
         THEN /\ health.rate_limit_count < MaxEvents
              /\ platform_health' =
                    (platform :> AfterRateLimit(health, now)) @@ platform_health
              /\ rate_limit_history' = HandleRateLimit(rate_limit_history, platform, now)
              /\ last' = [ called EXCEPT
                             !.status = "rate_limited",
                             !.backoff_seconds =
                                 GetBackoffTime(rate_limit_history', platform, now) ]
       ELSE IF response_code >= 400
         THEN /\ health.consecutive_errors < MaxErrors
              /\ platform_health' =
                    (platform :> [ health EXCEPT !.consecutive_errors = @ + 1,
                                                 !.last_error = now ])
                        @@ platform_health
              /\ last' = [ called EXCEPT !.status = "error" ]
              /\ UNCHANGED rate_limit_history
       ELSE /\ platform_health' =
                    (platform :> [ health EXCEPT !.consecutive_errors = 0,
                                                 !.status = "healthy" ])
                        @@ platform_health
            /\ last' = [ called EXCEPT !.status = "success" ]
            /\ UNCHANGED rate_limit_history

\* _get_backoff_time(platform), called on its own
GetBackoffTimeCall(platform) ==
    /\ last' = [ LastNone EXCEPT
                   !.op = "_get_backoff_time", !.platform = platform,
                   !.backoff_seconds = GetBackoffTime(rate_limit_history, platform, now) ]
    /\ UNCHANGED << now, nticks, accounts, approval_requests, pending_approvals,
                    actions, history, audit, calls, current_session_data,
                    platform_state,
                    service_state >>

----------------------------------------------------------------------------
(* GracefulDegradationHandler *)

\* An error is the set of phrases its message is made of.
ErrorPhrases ==
    { "Rate Limit", "429", "Unauthorized", "401", "Not Found", "404",
      "Network", "Timeout", "timeout", "retry", "disk full" }

\* str.lower() on the phrases the model draws
LowerPhrase(s) ==
    CASE s = "Rate Limit" -> "rate limit"
      [] s = "Unauthorized" -> "unauthorized"
      [] s = "Not Found" -> "not found"
      [] s = "Network" -> "network"
      [] s = "Timeout" -> "timeout"
      [] OTHER -> s

\* str(error).lower()
ErrorStr(error) == { LowerPhrase(s) : s \in error }

\* variant: the network patterns tried before the others
ClassifyFailure_NetworkFirst(error) ==
    LET error_str == ErrorStr(error)
    IN  IF "network" \in error_str \/ "timeout" \in error_str THEN "network"
        ELSE IF "rate limit" \in error_str \/ "429" \in error_str THEN "rate_limit"
        ELSE IF "unauthorized" \in error_str \/ "401" \in error_str THEN "authentication"
        ELSE IF "not found" \in error_str \/ "404" \in error_str THEN "api_change"
        ELSE "unknown"

\* _classify_failure(error)
ClassifyFailure(error) ==
    LET error_str == ErrorStr(error)
    IN  IF "rate limit" \in error_str \/ "429" \in error_str THEN "rate_limit"
        ELSE IF "unauthorized" \in error_str \/ "401" \in error_str THEN "authentication"
        ELSE IF "not found" \in error_str \/ "404" \in error_str THEN "api_change"
        ELSE IF "network" \in error_str \/ "timeout" \in error_str THEN "network"
        ELSE "unknown"

\* the _handle_*_degradation methods
HandleRateLimitDegradation(platform, service) ==
    [ action |-> "pause_and_retry", delay_seconds |-> 900, reduce_activity |-> TRUE,
      message |-> << platform, service, "rate limited - reducing activity" >> ]

HandleAuthDegradation(platform, service) ==
    [ action |-> "pause_service", require_manual_intervention |-> TRUE,
      message |-> << platform, service,
                     "authentication failed - manual intervention required" >> ]

HandleApiChangeDegradation(platform, service) ==
    [ action |-> "disable_service", require_update |-> TRUE,
      message |-> << platform, service,
                     "API may have changed - service disabled pending update" >> ]

HandleNetworkDegradation(platform, service) ==
    [ action |-> "retry_with_backoff", max_retries |-> 3, backoff_multiplier |-> 2,
      message |-> << platform, service, "network issue - retrying with backoff" >> ]

HandleUnknownDegradation(platform, service) ==
    [ action |-> "pause_and_alert", delay_seconds |-> 300,
      require_investigation |-> TRUE,
      message |-> << platform, service, "unknown error - investigation required" >> ]

\* degradation_strategies.get(failure_type, self._handle_unknown_degradation)
DegradationOf(failure_type, platform, service) ==
    CASE failure_type = "rate_limit" -> HandleRateLimitDegradation(platform, service)
      [] failure_type = "authentication" -> HandleAuthDegradation(platform, service)
      [] failure_type = "api_change" -> HandleApiChangeDegradation(platform, service)
      [] failure_type = "network" -> HandleNetworkDegradation(platform, service)
      [] OTHER -> HandleUnknownDegradation(platform, service)

\* handle_api_failure(platform, service, error)
HandleApiFailure(platform, service, error) ==
    /\ last' = [ LastNone EXCEPT
                   !.op = "handle_api_failure", !.platform = platform,
                   !.error = error,
                   !.result = DegradationOf(ClassifyFailure(error), platform, service) ]
    /\ UNCHANGED << now, nticks, accounts, approval_requests, pending_approvals,
                    actions, history, audit, calls, current_session_data,
                    platform_state,
                    service_state >>

----------------------------------------------------------------------------
(* TikTokService.follow_user.  The analyzer's analyze_authenticity and the  *)
(* simulator's get_action_delay are not in the source: they are taken to    *)
(* return.  The call gives up the event loop at `await asyncio.sleep`.      *)

\* rate_limits['follows_per_hour']
FollowsPerHour == 2 * 100

\* _reset_usage_counters()
ResetUsageCounters(tracker, t) ==
    [ k \in DOMAIN tracker |->
        IF t - tracker[k].last_reset > 60 * 60
          THEN [ count |-> 0, last_reset |-> t ]
          ELSE tracker[k] ]

\* variant: a count equal to the limit still passes
CheckRateLimit_AtMost(tracker, action_type) ==
    /\ action_type \in DOMAIN tracker
    /\ tracker[action_type].count <= FollowsPerHour

\* _check_rate_limit(action_type), on the counters after the reset
CheckRateLimit(tracker, action_type) ==
    /\ action_type \in DOMAIN tracker
    /\ tracker[action_type].count < FollowsPerHour

\* follow_user up to `await asyncio.sleep(delay)`: the rate-limit check, the
\* target's information and the safety check
FollowUserStart(c, safe) ==
    LET tracker == ResetUsageCounters(usage_tracker, now)
        called == [ LastNone EXCEPT !.op = "follow_user", !.id = c ]
    IN
    /\ calls[c].pc = "idle"
    /\ usage_tracker' = tracker
    /\ IF ~CheckRateLimit(tracker, "follows")
         THEN /\ last' = [ called EXCEPT !.ret = "false",
                                          !.status = "Rate limit exceeded for follows" ]
              /\ UNCHANGED calls
       ELSE IF ~safe
         THEN /\ last' = [ called EXCEPT !.ret = "false",
                                          !.status = "Target account failed safety checks" ]
              /\ UNCHANGED calls
       ELSE /\ calls' = [ calls EXCEPT ![c] =
                            [ IdleCall EXCEPT !.op = "follow_user", !.pc = "sleeping",
                                              !.seen = tracker["follows"].count ] ]
            /\ last' = [ called EXCEPT !.ret = "suspended" ]
    /\ UNCHANGED << now, nticks, accounts, approval_requests, pending_approvals,
                    actions, history, audit, current_session_data,
                    platform_health, rate_limit_history,
                    service_state >>

\* follow_user from the sleep on: _execute_follow, the counter, the log
FollowUserResume(c, outcome) ==
    LET called == [ LastNone EXCEPT !.op = "follow_user", !.id = c ]
    IN
    /\ calls[c].pc = "sleeping"
    /\ calls[c].op = "follow_user"
    /\ calls' = [ calls EXCEPT ![c] = IdleCall ]
    /\ IF outcome = "success"
         THEN /\ usage_tracker' =
                    [ usage_tracker EXCEPT !["follows"].count = @ + 1 ]
              /\ last' = [ called EXCEPT !.ret = "true" ]
         ELSE \* a result without success, or `except Exception`
              /\ UNCHANGED usage_tracker
              /\ last' = [ called EXCEPT
                             !.ret = "false",
                             !.status = IF outcome = "raise"
                                          THEN "Follow execution failed"
                                          ELSE "Follow action failed (simulated)" ]
    /\ UNCHANGED << now, nticks, accounts, approval_requests, pending_approvals,
                    actions, history, audit, current_session_data,
                    platform_health, rate_limit_history,
                    service_state >>

----------------------------------------------------------------------------
(* The approval workflow on its own *)

AccountRow(profile) ==
    IF profile = "healthy"
      THEN [ platform |-> "tiktok", created_at |-> 0, current_phase |-> "phase_1",
             followers_count |-> 100, following_count |-> 50,
             engagement_rate |-> 50, consecutive_errors |-> 0,
             last_action_at |-> NoTime ]
      ELSE [ platform |-> IF profile = "risky" THEN "instagram" ELSE "myspace",
             created_at |-> 0, current_phase |-> "phase_1",
             followers_count |-> 10, following_count |-> 21,
             engagement_rate |-> 15, consecutive_errors |-> 0,
             last_action_at |-> NoTime ]

InitStores ==
    /\ nticks = 0
    /\ approval_requests = << >>
    /\ pending_approvals = << >>
    /\ actions = << >>
    /\ history = << >>
    /\ audit = << >>
    /\ calls = [ c \in CallIds |-> IdleCall ]
    /\ platform_health = << >>
    /\ rate_limit_history = << >>
    /\ ai_service = NoAIService
    /\ auth_states = << >>
    /\ issued = 0
    /\ last = LastNone

InitCommonButSession ==
    /\ InitStores
    /\ usage_tracker = [ k \in UsageKinds |-> [ count |-> 0, last_reset |-> 0 ] ]

InitCommon ==
    /\ InitCommonButSession
    /\ current_session_data = << >>

InitApproval ==
    /\ InitCommon
    /\ now = 0
    /\ accounts = [ a \in Accounts |-> AccountRow(IF a = "a1" THEN "healthy" ELSE "risky") ]

NextApproval ==
    \/ \E a \in Accounts, t \in ActionTypeInputs : RequestApproval(a, t)
    \/ \E id \in IdsToTry, by \in Approvers, via \in Vias : ApproveAction(id, by, via)
    \/ \E id \in IdsToTry, by \in Approvers, via \in Vias : RejectAction(id, by, via)
    \/ Tick(1)

SpecApproval == InitApproval /\ [][NextApproval]_vars

----------------------------------------------------------------------------
(* Listing the pending approvals *)

NextListing ==
    \/ \E a \in Accounts, t \in ActionTypeInputs : RequestApproval(a, t)
    \/ \E id \in IdsToTry, by \in Approvers : ApproveAction(id, by, "endpoint")
    \/ \E id \in IdsToTry, by \in Approvers : RejectAction(id, by, "endpoint")
    \/ \E f \in Accounts \cup {NoAccount} : GetPendingApprovalsCall(f)
    \/ \E a \in Accounts, st \in {"pending", "completed"} : LogAction(a, st)

SpecListing == InitApproval /\ [][NextListing]_vars

----------------------------------------------------------------------------
(* approve_action and reject_action interleaved at their awaits *)

\* approval = await self.db.get_approval_request(approval_id), then the guard
CallRead(c, op, approval_id) ==
    /\ calls[c].pc = "idle"
    /\ LET approval == GetApprovalRequest(approval_requests, approval_id)
       IN  calls' = [ calls EXCEPT ![c] =
                        [ op |-> op, id |-> approval_id, seen |-> approval.status,
                          pc |-> IF IsResolvable(approval) THEN "update" ELSE "done",
                          ret |-> IF IsResolvable(approval) THEN "none" ELSE "false" ] ]
    /\ UNCHANGED << now, nticks, accounts, approval_requests, pending_approvals,
                    actions, history, audit, current_session_data, platform_state, last,
                    service_state >>

\* await self.db.update_approval_status(approval_id, status, approver_id, notes)
CallUpdate(c, approver_id) ==
    /\ calls[c].pc = "update"
    /\ approval_requests' =
          UpdateApprovalStatus(approval_requests, calls[c].id,
                               StatusWrittenBy(calls[c].op), approver_id)
    /\ calls' = [ calls EXCEPT ![c].pc = "resume" ]
    /\ UNCHANGED << now, nticks, accounts, pending_approvals, actions, history,
                    audit, current_session_data, platform_state,
                    service_state, last >>

\* del self.pending_approvals[approval_id]; return True
CallResume(c) ==
    /\ calls[c].pc = "resume"
    /\ pending_approvals' = Without(pending_approvals, calls[c].id)
    /\ calls' = [ calls EXCEPT ![c].pc = "done", ![c].ret = "true" ]
    /\ UNCHANGED << now, nticks, accounts, approval_requests, actions, history,
                    audit, current_session_data, platform_state, last,
                    service_state >>

NextConc ==
    \/ \E a \in Accounts, t \in ActionTypeInputs : RequestApproval(a, t)
    \/ \E c \in CallIds, op \in {"approve_action", "reject_action"},
          id \in IdsToTry : CallRead(c, op, id)
    \/ \E c \in CallIds, by \in Approvers : CallUpdate(c, by)
    \/ \E c \in CallIds : CallResume(c)
    \/ Tick(1)

SpecConc == InitApproval /\ [][NextConc]_vars

----------------------------------------------------------------------------
(* assess_action_risk over every account health, phase and LLM outcome *)

AssessTime == 60 * 60    \* one hour after the epoch of the model

AssessRows ==
    [ platform : {"tiktok"}, created_at : {0}, current_phase : Phases,
      followers_count : {10}, following_count : {20, 21, 50, 51},
      engagement_rate : {9, 10, 19, 20}, consecutive_errors : {2, 3, 5, 6},
      last_action_at : {NoTime, AssessTime - 1800, AssessTime - 1799} ]

InitAssess ==
    /\ InitCommon
    /\ now = AssessTime
    /\ \E row \in AssessRows :
          accounts = [ a \in Accounts |-> IF a = "a1" THEN row ELSE AccountRow("healthy") ]

AssessActionRiskCall(a, action_type, llm) ==
    /\ last' = [ LastNone EXCEPT
                   !.op = "assess_action_risk", !.account = a,
                   !.action_type = action_type, !.llm = llm,
                   !.phase = accounts[a].current_phase,
                   !.risk_score = CalculateRiskScore(accounts[a], now),
                   !.assessment = AssessActionRisk(accounts[a], now, action_type, llm) ]
    /\ UNCHANGED << now, nticks, accounts, approval_requests, pending_approvals,
                    actions, history, audit, calls, current_session_data, platform_state,
                    service_state >>

NextAssess ==
    \E a \in {"a1"}, t \in ActionTypeInputs, llm \in LLMOutcomes :
        AssessActionRiskCall(a, t, llm)

SpecAssess == InitAssess /\ [][NextAssess]_vars

----------------------------------------------------------------------------
(* HumanBehaviorSimulator (src/backend/behavioral_service.py).  Modifiers   *)
(* and variances are in hundredths, day-of-week weights in tenths.  The     *)
(* random draws are points two hundredths inside each end of the uniform    *)
(* ranges; at those points the integer arithmetic below has the value of    *)
(* the code's double arithmetic after int().                                *)

Hour(t) == (t \div 3600) % 24

\* 0 is monday; the epoch of the model (second 0) is a thursday
DayOfWeek(t) == ((t \div 86400) + 3) % 7

Conservative ==
    [ active_hours |-> << 8, 22 >>,
      peak_activity_hours |-> << << 12, 14 >>, << 19, 21 >> >>,
      burst_delay |-> << 120, 600 >>, daily_variance |-> 30,
      weekly_patterns |-> << 8, 10, 10, 9, 7, 4, 3 >> ]

Moderate ==
    [ active_hours |-> << 7, 23 >>,
      peak_activity_hours |-> << << 9, 11 >>, << 14, 16 >>, << 20, 22 >> >>,
      burst_delay |-> << 60, 300 >>, daily_variance |-> 40,
      weekly_patterns |-> << 9, 10, 11, 10, 8, 6, 4 >> ]

Aggressive ==
    [ active_hours |-> << 6, 24 >>,
      peak_activity_hours |-> << << 8, 10 >>, << 12, 14 >>, << 16, 18 >>, << 20, 23 >> >>,
      burst_delay |-> << 30, 180 >>, daily_variance |-> 50,
      weekly_patterns |-> << 10, 11, 12, 11, 10, 8, 6 >> ]

GetPatternForPhase(phase) ==
    CASE phase = "phase_1" -> Conservative
      [] phase = "phase_2" -> Moderate
      [] phase = "phase_3" -> Aggressive
      [] OTHER -> Conservative

IsPeakHours(hour, pattern) ==
    \E i \in DOMAIN pattern.peak_activity_hours :
        /\ pattern.peak_activity_hours[i][1] <= hour
        /\ hour <= pattern.peak_activity_hours[i][2]

IsActiveHours(hour, pattern) ==
    pattern.active_hours[1] <= hour /\ hour <= pattern.active_hours[2]

\* current_session_data.get(account_id, {...}): no code writes the map, so
\* every lookup yields the default built at the time of the call
NoSession(t) ==
    [ last_break |-> t, consecutive_actions |-> 0, last_action_time |-> NoTime ]

SessionOf(a, t) ==
    IF a \in DOMAIN current_session_data THEN current_session_data[a]
    ELSE NoSession(t)

IsInActionBurst(session, t) ==
    /\ session.last_action_time # NoTime
    /\ t - session.last_action_time < 120

\* the values random.* returns during one call
Draws ==
    [ base : {"min", "max"}, modifier : {"lo", "hi"}, variance : {"lo", "hi"},
      burst : {"lo", "hi"}, random_break : BOOLEAN, break_len : {"lo", "hi"} ]

Pick(which, lo, hi) == IF which \in {"lo", "min"} THEN lo ELSE hi

Max(x, y) == IF x > y THEN x ELSE y

\* variant: the product returned as computed, without the minimum
CalculateOptimalDelay_NoFloor(phase, t, session, draw) ==
    LET pattern == GetPatternForPhase(phase)
        base_delay == Pick(draw.base, pattern.burst_delay[1], pattern.burst_delay[2])
        delay_modifier ==
            IF IsPeakHours(Hour(t), pattern) THEN Pick(draw.modifier, 72, 98)
            ELSE IF IsActiveHours(Hour(t), pattern) THEN Pick(draw.modifier, 92, 128)
            ELSE Pick(draw.modifier, 202, 498)
        day_modifier == pattern.weekly_patterns[DayOfWeek(t) + 1]
        variance == Pick(draw.variance, 100 - pattern.daily_variance + 2,
                                        100 + pattern.daily_variance - 2)
        final_delay == (base_delay * delay_modifier * day_modifier * variance)
                           \div (100 * 10 * 100)
    IN  IF IsInActionBurst(session, t)
          THEN (final_delay * Pick(draw.burst, 32, 68)) \div 100
          ELSE final_delay

\* calculate_optimal_delay(account_id, action_type, phase)
CalculateOptimalDelay(phase, t, session, draw) ==
    LET pattern == GetPatternForPhase(phase)
        base_delay == Pick(draw.base, pattern.burst_delay[1], pattern.burst_delay[2])
        delay_modifier ==
            IF IsPeakHours(Hour(t), pattern) THEN Pick(draw.modifier, 72, 98)
            ELSE IF IsActiveHours(Hour(t), pattern) THEN Pick(draw.modifier, 92, 128)
            ELSE Pick(draw.modifier, 202, 498)
        day_modifier == pattern.weekly_patterns[DayOfWeek(t) + 1]
        variance == Pick(draw.variance, 100 - pattern.daily_variance + 2,
                                        100 + pattern.daily_variance - 2)
        final_delay == (base_delay * delay_modifier * day_modifier * variance)
                           \div (100 * 10 * 100)
        in_burst == IF IsInActionBurst(session, t)
                      THEN (final_delay * Pick(draw.burst, 32, 68)) \div 100
                      ELSE final_delay
    IN  Max(in_burst, 15)

\* _calculate_break_duration: random.randint(min, max) * 60
CalculateBreakDuration(draw, min_break, max_break) ==
    Pick(draw.break_len, min_break, max_break) * 60

\* variant: the periodic trigger tried first
ShouldTakeBreak_PeriodicFirst(session, t, actions_in_session, draw) ==
    IF actions_in_session > 0 /\ actions_in_session % 15 = 0
      THEN [ take |-> TRUE, duration |-> CalculateBreakDuration(draw, 3, 12) ]
    ELSE IF session.consecutive_actions > 20
      THEN [ take |-> TRUE, duration |-> CalculateBreakDuration(draw, 10, 30) ]
    ELSE IF t - session.last_break > 90 * 60
      THEN [ take |-> TRUE, duration |-> CalculateBreakDuration(draw, 5, 15) ]
    ELSE IF draw.random_break
      THEN [ take |-> TRUE, duration |-> CalculateBreakDuration(draw, 2, 8) ]
    ELSE [ take |-> FALSE, duration |-> 0 ]

\* variant: without the periodic trigger
ShouldTakeBreak_NoPeriodic(session, t, actions_in_session, draw) ==
    IF session.consecutive_actions > 20
      THEN [ take |-> TRUE, duration |-> CalculateBreakDuration(draw, 10, 30) ]
    ELSE IF t - session.last_break > 90 * 60
      THEN [ take |-> TRUE, duration |-> CalculateBreakDuration(draw, 5, 15) ]
    ELSE IF draw.random_break
      THEN [ take |-> TRUE, duration |-> CalculateBreakDuration(draw, 2, 8) ]
    ELSE [ take |-> FALSE, duration |-> 0 ]

\* should_take_break(account_id, actions_in_session): first trigger wins
ShouldTakeBreak(session, t, actions_in_session, draw) ==
    IF session.consecutive_actions > 20
      THEN [ take |-> TRUE, duration |-> CalculateBreakDuration(draw, 10, 30) ]
    ELSE IF t - session.last_break > 90 * 60
      THEN [ take |-> TRUE, duration |-> CalculateBreakDuration(draw, 5, 15) ]
    ELSE IF draw.random_break
      THEN [ take |-> TRUE, duration |-> CalculateBreakDuration(draw, 2, 8) ]
    ELSE IF actions_in_session > 0 /\ actions_in_session % 15 = 0
      THEN [ take |-> TRUE, duration |-> CalculateBreakDuration(draw, 3, 12) ]
    ELSE [ take |-> FALSE, duration |-> 0 ]

----------------------------------------------------------------------------
(* PhaseManager.should_progress_phase / progress_account_phase *)

DaysActive(data, t) == (t - data.created_at) \div 86400

\* variant: the engagement gates read as "at least"
ShouldProgressPhase_EngagementAtLeast(data, t) ==
    LET health == GetAccountHealth(data, t)
        stay == [ progress |-> FALSE, phase |-> data.current_phase ]
    IN  IF data.created_at = NoTime THEN stay
        ELSE IF data.current_phase = "phase_1" /\ DaysActive(data, t) >= 30
          THEN IF /\ health.risk_score < 3 * ScoreUnit
                  /\ health.consecutive_errors < 3
                  /\ health.engagement_rate >= 10
                 THEN [ progress |-> TRUE, phase |-> "phase_2" ]
                 ELSE stay
        ELSE IF data.current_phase = "phase_2" /\ DaysActive(data, t) >= 60
          THEN IF /\ health.risk_score < 4 * ScoreUnit
                  /\ health.consecutive_errors < 5
                  /\ health.engagement_rate >= 20
                 THEN [ progress |-> TRUE, phase |-> "phase_3" ]
                 ELSE stay
        ELSE stay

\* should_progress_phase: (should_progress, next phase)
ShouldProgressPhase(data, t) ==
    LET health == GetAccountHealth(data, t)
        stay == [ progress |-> FALSE, phase |-> data.current_phase ]
    IN  IF data.created_at = NoTime THEN stay
        ELSE IF data.current_phase = "phase_1" /\ DaysActive(data, t) >= 30
          THEN IF /\ health.risk_score < 3 * ScoreUnit
                  /\ health.consecutive_errors < 3
                  /\ health.engagement_rate > 10
                 THEN [ progress |-> TRUE, phase |-> "phase_2" ]
                 ELSE stay
        ELSE IF data.current_phase = "phase_2" /\ DaysActive(data, t) >= 60
          THEN IF /\ health.risk_score < 4 * ScoreUnit
                  /\ health.consecutive_errors < 5
                  /\ health.engagement_rate > 20
                 THEN [ progress |-> TRUE, phase |-> "phase_3" ]
                 ELSE stay
        ELSE stay

----------------------------------------------------------------------------
(* SocialSeedOrchestrator.execute_action (src/backend/main.py).  The        *)
(* platform executor, db.get_session_action_count, db.log_action_history,  *)
(* db.update_account_phase and db.log_phase_progression are not in the      *)
(* sources: the executor returns a result dict or raises, the count is an  *)
(* input, and the writes are reliable appends / updates.                    *)

\* variant: only RED is parked
NeedsApproval_RedOnly(assessment, force_execute) ==
    assessment.risk_level = "red" /\ ~force_execute

\* variant: force_execute not consulted
NeedsApproval_IgnoringForce(assessment, force_execute) ==
    assessment.requires_human_approval

\* if risk_assessment.requires_human_approval and not force_execute
NeedsApproval(assessment, force_execute) ==
    assessment.requires_human_approval /\ ~force_execute

Outcomes == { "success", "failed", "raise" }

\* variant: the platform called without waiting
AfterSleep_NoWait(t, delay_seconds) == t

\* the clock once `await asyncio.sleep(delay_seconds)` returns
AfterSleep(t, delay_seconds) == IF delay_seconds > 0 THEN t + delay_seconds ELSE t

StepsToBreak == << "assess_action_risk", "calculate_optimal_delay",
                   "get_session_action_count", "should_take_break" >>

ExecuteAction(a, action_type, force_execute, llm, draw, session_actions, outcome) ==
    LET account == accounts[a]
        current_phase == account.current_phase
        assessment == AssessActionRisk(account, now, action_type, llm)
        called == [ LastNone EXCEPT
                      !.op = "execute_action", !.account = a,
                      !.action_type = action_type, !.force = force_execute,
                      !.llm = llm, !.phase = current_phase,
                      !.risk_score = CalculateRiskScore(account, now),
                      !.assessment = assessment ]
        delay_seconds == CalculateOptimalDelay(current_phase, now, SessionOf(a, now), draw)
        brk == ShouldTakeBreak(SessionOf(a, now), now, session_actions, draw)
        after == AfterSleep(now, delay_seconds)
        progression == ShouldProgressPhase(account, after)
    IN
    /\ UNCHANGED << actions, calls, current_session_data, platform_state,
                    service_state >>
    /\ IF assessment.kind = "raised"
         THEN \* caught by `except Exception`
              /\ last' = [ called EXCEPT !.status = "error",
                                         !.trace = << "assess_action_risk" >> ]
              /\ UNCHANGED << now, nticks, accounts, approval_requests,
                              pending_approvals, history, audit,
                    service_state >>
       ELSE IF NeedsApproval(assessment, force_execute)
         THEN /\ Len(approval_requests) < MaxParked
              /\ approval_requests' =
                    CreateApprovalRequest(approval_requests, NewRequest(a, now))
              /\ pending_approvals' =
                    (ApprovalId(a, now) :> NewRequest(a, now)) @@ pending_approvals
              /\ last' = [ called EXCEPT
                             !.status = "approval_required",
                             !.id = ApprovalId(a, now),
                             !.trace = << "assess_action_risk", "request_approval" >> ]
              /\ UNCHANGED << now, nticks, accounts, history, audit >>
       ELSE IF brk.take
         THEN /\ last' = [ called EXCEPT !.status = "break_required",
                                         !.delay = delay_seconds,
                                         !.break_duration = brk.duration,
                                         !.trace = StepsToBreak ]
              /\ UNCHANGED << now, nticks, accounts, approval_requests,
                              pending_approvals, history, audit,
                    service_state >>
       ELSE IF account.platform \notin Platforms
         THEN \* HTTPException(400), caught by `except Exception`
              /\ last' = [ called EXCEPT !.status = "error",
                                         !.delay = delay_seconds,
                                         !.trace = StepsToBreak ]
              /\ UNCHANGED << now, nticks, accounts, approval_requests,
                              pending_approvals, history, audit,
                    service_state >>
       ELSE \* await asyncio.sleep(delay_seconds), then the platform call
            /\ nticks < MaxSleeps
            /\ nticks' = nticks + 1
            /\ now' = after
            /\ UNCHANGED << approval_requests, pending_approvals >>
            /\ IF outcome = "raise"
                 THEN /\ last' = [ called EXCEPT
                                     !.status = "error", !.delay = delay_seconds,
                                     !.trace = StepsToBreak \o
                                        << "sleep", "platform.execute_action" >> ]
                      /\ UNCHANGED << accounts, history, audit >>
                 ELSE /\ history' = Append(history,
                            [ account_id |-> a, status |-> outcome,
                              delay_before_action |-> delay_seconds,
                              executed_at |-> after ])
                      /\ accounts' =
                            IF progression.progress
                              THEN [ accounts EXCEPT ![a].current_phase = progression.phase ]
                              ELSE accounts
                      \* from_phase is read after update_account_phase
                      /\ audit' =
                            IF progression.progress
                              THEN Append(audit,
                                     [ account_id |-> a,
                                       from_phase |-> accounts'[a].current_phase,
                                       to_phase |-> progression.phase,
                                       timestamp |-> after ])
                              ELSE audit
                      /\ last' = [ called EXCEPT
                                     !.status = outcome, !.delay = delay_seconds,
                                     !.trace = StepsToBreak \o
                                        << "sleep", "platform.execute_action",
                                           "log_action_history",
                                           "progress_account_phase" >> ]

\* What a collaborator may raise: a missing method or a None account
\* (AttributeError), a missing key (KeyError), a database failure, an
\* HTTPException.  All derive from Exception.
Raisable == { "AttributeError", "KeyError", "PostgresError", "HTTPException" }

\* variant: except HTTPException
Catches_HTTPOnly(exc) == exc = "HTTPException"

\* except Exception
Catches(exc) == exc \in Raisable

\* the awaited calls of execute_action that reach the database
FaultSteps == { "get_account", "create_approval_request", "get_session_action_count",
                "log_action_history", "update_account_phase", "log_phase_progression" }

\* execute_action in which the database call `step` raises `exc`; the LLM and
\* the platform raising are part of ExecuteAction
ExecuteActionFault(a, action_type, force_execute, llm, draw, session_actions, step, exc) ==
    LET account == accounts[a]
        current_phase == account.current_phase
        assessment == AssessActionRisk(account, now, action_type, llm)
        delay_seconds == CalculateOptimalDelay(current_phase, now, SessionOf(a, now), draw)
        brk == ShouldTakeBreak(SessionOf(a, now), now, session_actions, draw)
        after == AfterSleep(now, delay_seconds)
        progression == ShouldProgressPhase(account, after)
        parked == assessment.kind # "raised" /\ NeedsApproval(assessment, force_execute)
        passed == assessment.kind # "raised" /\ ~NeedsApproval(assessment, force_execute)
        executed == passed /\ ~brk.take /\ account.platform \in Platforms
        slept == step \in { "log_action_history", "update_account_phase",
                            "log_phase_progression" }
        trace ==
            CASE step = "get_account" -> << >>
              [] step = "create_approval_request" ->
                    << "assess_action_risk", "request_approval" >>
              [] step = "get_session_action_count" ->
                    << "assess_action_risk", "calculate_optimal_delay" >>
              [] step = "log_action_history" ->
                    StepsToBreak \o << "sleep", "platform.execute_action" >>
              [] OTHER ->
                    StepsToBreak \o << "sleep", "platform.execute_action",
                                       "log_action_history" >>
        called == [ LastNone EXCEPT
                      !.op = "execute_action", !.account = a,
                      !.action_type = action_type, !.force = force_execute,
                      !.llm = llm, !.phase = current_phase, !.trace = trace,
                      !.delay = IF slept THEN delay_seconds ELSE 0 ]
    IN
    /\ CASE step = "get_account" -> TRUE
         [] step = "create_approval_request" -> parked
         [] step = "get_session_action_count" -> passed
         [] step = "log_action_history" -> executed
         [] OTHER -> executed /\ progression.progress
    /\ slept => nticks < MaxSleeps
    /\ now' = IF slept THEN after ELSE now
    /\ nticks' = IF slept THEN nticks + 1 ELSE nticks
    /\ history' =
          IF step \in { "update_account_phase", "log_phase_progression" }
            THEN Append(history, [ account_id |-> a, status |-> "success",
                                   delay_before_action |-> delay_seconds,
                                   executed_at |-> after ])
            ELSE history
    /\ accounts' =
          IF step = "log_phase_progression"
            THEN [ accounts EXCEPT ![a].current_phase = progression.phase ]
            ELSE accounts
    /\ last' = IF Catches(exc) THEN [ called EXCEPT !.status = "error" ]
               ELSE [ called EXCEPT !.ret = "raised" ]
    /\ UNCHANGED << approval_requests, pending_approvals, actions, audit, calls,
                    current_session_data, platform_state,
                    service_state >>

\* the calls the pipeline is exercised with: who calls, how, the verdict the
\* LLM gives, and what random.*, the session count and the platform yield
PipelineLLM ==
    { [ kind |-> "raise", dict |-> NoDict ],
      [ kind |-> "dict", dict |-> [ risk_level |-> "green", confidence |-> 85 ] ],
      [ kind |-> "dict", dict |-> [ risk_level |-> "yellow", confidence |-> NoConfidence ] ] }

Steady == [ base |-> "min", modifier |-> "lo", variance |-> "lo", burst |-> "lo",
            random_break |-> FALSE, break_len |-> "lo" ]

PipelineEnvs ==
    { [ draw |-> Steady, session_actions |-> 0, outcome |-> "success" ],
      [ draw |-> Steady, session_actions |-> 0, outcome |-> "failed" ],
      [ draw |-> Steady, session_actions |-> 0, outcome |-> "raise" ],
      [ draw |-> Steady, session_actions |-> 15, outcome |-> "success" ],
      [ draw |-> [ Steady EXCEPT !.random_break = TRUE, !.break_len = "hi" ],
        session_actions |-> 0, outcome |-> "success" ] }

InitPipeline ==
    /\ InitCommon
    /\ now = Days(30)
    /\ accounts = [ a \in Accounts |->
                      AccountRow(IF a = "a1" THEN "healthy" ELSE "unsupported") ]

Next ==
    \E a \in Accounts, t \in ActionTypeInputs, f \in BOOLEAN, llm \in PipelineLLM,
       e \in PipelineEnvs :
        ExecuteAction(a, t, f, llm, e.draw, e.session_actions, e.outcome)

Spec == InitPipeline /\ [][Next]_vars

----------------------------------------------------------------------------
(* The approval workflow with everything that runs beside it: the reads,   *)
(* further execute_action calls, and the clock.                            *)

FrameLLM == [ kind |-> "dict", dict |-> [ risk_level |-> "yellow", confidence |-> 85 ] ]

FrameEnv == [ draw |-> Steady, session_actions |-> 0, outcome |-> "success" ]

StoredIds == { approval_requests[i].approval_id : i \in DOMAIN approval_requests }

NextFrame ==
    \/ RequestApproval("a1", "ActionType.FOLLOW")
    \/ \E id \in StoredIds, by \in Approvers : ApproveAction(id, by, "method")
    \/ \E id \in StoredIds, by \in Approvers : RejectAction(id, by, "method")
    \/ \E f \in {NoAccount, "a1"} : GetPendingApprovalsCall(f)
    \/ \E id \in StoredIds : IsActionApprovedCall(id)
    \/ \E f \in BOOLEAN :
          ExecuteAction("a2", "ActionType.FOLLOW", f, FrameLLM, FrameEnv.draw,
                        FrameEnv.session_actions, FrameEnv.outcome)
    \/ Tick(1)

SpecFrame == InitApproval /\ [][NextFrame]_vars

----------------------------------------------------------------------------
(* PhaseManager on its own: initialize_account_phase, should_progress_phase *)
(* and progress_account_phase over accounts of every age and health.  The  *)
(* writes db.update_account_phase and db.log_phase_progression are not in  *)
(* the sources; they are an update of the row and an append to the log.    *)

\* variant: PHASE_2 a day early
InitialPhase_EarlyPhase2(data, t) ==
    IF data.created_at = NoTime THEN "phase_1"
    ELSE IF DaysActive(data, t) < 29 THEN "phase_1"
    ELSE IF DaysActive(data, t) < 60 THEN "phase_2"
    ELSE "phase_3"

\* variant: every account starts over in PHASE_1
InitialPhase_AlwaysPhase1(data, t) == "phase_1"

\* initialize_account_phase: the phase is chosen by age
InitialPhase(data, t) ==
    IF data.created_at = NoTime THEN "phase_1"
    ELSE IF DaysActive(data, t) < 30 THEN "phase_1"
    ELSE IF DaysActive(data, t) < 60 THEN "phase_2"
    ELSE "phase_3"

InitializeAccountPhase(a) ==
    LET phase == InitialPhase(accounts[a], now)
    IN  /\ accounts' = [ accounts EXCEPT ![a].current_phase = phase ]
        /\ last' = [ LastNone EXCEPT
                       !.op = "initialize_account_phase", !.account = a,
                       !.phase = accounts[a].current_phase, !.status = phase ]
        /\ UNCHANGED << now, nticks, approval_requests, pending_approvals, actions,
                        history, audit, calls, current_session_data, platform_state,
                    service_state >>

ShouldProgressPhaseCall(a) ==
    LET answer == ShouldProgressPhase(accounts[a], now)
    IN  /\ last' = [ LastNone EXCEPT
                       !.op = "should_progress_phase", !.account = a,
                       !.phase = accounts[a].current_phase,
                       !.risk_score = CalculateRiskScore(accounts[a], now),
                       !.ret = IF answer.progress THEN "true" ELSE "false",
                       !.status = answer.phase ]
        /\ UNCHANGED << now, nticks, accounts, approval_requests, pending_approvals,
                        actions, history, audit, calls, current_session_data, platform_state,
                    service_state >>

\* variant: the progression logged whether or not it happened
ProgressAccountPhase_AlwaysLogs(a) ==
    LET answer == ShouldProgressPhase(accounts[a], now)
    IN  /\ accounts' = [ accounts EXCEPT ![a].current_phase = answer.phase ]
        /\ audit' = Append(audit, [ account_id |-> a,
                                    from_phase |-> accounts'[a].current_phase,
                                    to_phase |-> answer.phase, timestamp |-> now ])
        /\ last' = [ LastNone EXCEPT
                       !.op = "progress_account_phase", !.account = a,
                       !.phase = accounts[a].current_phase,
                       !.risk_score = CalculateRiskScore(accounts[a], now),
                       !.ret = IF answer.progress THEN "true" ELSE "false" ]
        /\ UNCHANGED << now, nticks, approval_requests, pending_approvals, actions,
                        history, calls, current_session_data, platform_state,
                    service_state >>

\* progress_account_phase: update_account_phase, then log_phase_progression
\* with from_phase read back after the update
ProgressAccountPhase(a) ==
    LET answer == ShouldProgressPhase(accounts[a], now)
    IN  /\ accounts' = IF answer.progress
                          THEN [ accounts EXCEPT ![a].current_phase = answer.phase ]
                          ELSE accounts
        /\ audit' = IF answer.progress
                       THEN Append(audit, [ account_id |-> a,
                                            from_phase |-> accounts'[a].current_phase,
                                            to_phase |-> answer.phase,
                                            timestamp |-> now ])
                       ELSE audit
        /\ last' = [ LastNone EXCEPT
                       !.op = "progress_account_phase", !.account = a,
                       !.phase = accounts[a].current_phase,
                       !.risk_score = CalculateRiskScore(accounts[a], now),
                       !.ret = IF answer.progress THEN "true" ELSE "false" ]
        /\ UNCHANGED << now, nticks, approval_requests, pending_approvals, actions,
                        history, calls, current_session_data, platform_state,
                    service_state >>

----------------------------------------------------------------------------
(* progress_account_phase calls in flight.  The call gives up the event    *)
(* loop at each database call: after the guards were evaluated, after the  *)
(* phase was written, and after the from-phase was read.                   *)

\* variant: the write of the phase lost
UpdateAccountPhase_Lost(accts, a, phase) == accts

\* db.update_account_phase(account_id, phase)
UpdateAccountPhase(accts, a, phase) == [ accts EXCEPT ![a].current_phase = phase ]

\* should_progress, next_phase = await self.should_progress_phase(account_id)
ProgressCheck(c, a) ==
    LET answer == ShouldProgressPhase(accounts[a], now)
    IN
    /\ calls[c].pc = "idle"
    /\ IF answer.progress
         THEN /\ calls' = [ calls EXCEPT ![c] =
                              [ op |-> "progress_account_phase", id |-> a,
                                pc |-> "update", seen |-> accounts[a].current_phase,
                                ret |-> "none", next_phase |-> answer.phase,
                                from_phase |-> "none", timestamp |-> NoTime ] ]
              /\ last' = [ LastNone EXCEPT !.op = "progress_account_phase",
                                           !.account = a, !.id = c,
                                           !.ret = "suspended" ]
         ELSE /\ UNCHANGED calls
              /\ last' = [ LastNone EXCEPT !.op = "progress_account_phase",
                                           !.account = a, !.id = c, !.ret = "false" ]
    /\ UNCHANGED << now, nticks, accounts, approval_requests, pending_approvals,
                    actions, history, audit, current_session_data, platform_state,
                    service_state >>

\* await self.db.update_account_phase(account_id, next_phase.value)
ProgressUpdate(c) ==
    /\ calls[c].pc = "update"
    /\ calls[c].op = "progress_account_phase"
    /\ accounts' = UpdateAccountPhase(accounts, calls[c].id, calls[c].next_phase)
    /\ calls' = [ calls EXCEPT ![c].pc = "read_from" ]
    /\ last' = [ LastNone EXCEPT !.op = "progress_account_phase",
                                 !.account = calls[c].id, !.id = c,
                                 !.ret = "suspended" ]
    /\ UNCHANGED << now, nticks, approval_requests, pending_approvals, actions,
                    history, audit, current_session_data, platform_state,
                    service_state >>

\* from_phase=await self.get_current_phase(account_id), timestamp=now()
ProgressReadFrom(c) ==
    /\ calls[c].pc = "read_from"
    /\ calls' = [ calls EXCEPT ![c].pc = "log",
                               ![c].from_phase = accounts[calls[c].id].current_phase,
                               ![c].timestamp = now ]
    /\ last' = [ LastNone EXCEPT !.op = "progress_account_phase",
                                 !.account = calls[c].id, !.id = c,
                                 !.ret = "suspended" ]
    /\ UNCHANGED << now, nticks, accounts, approval_requests, pending_approvals,
                    actions, history, audit, current_session_data, platform_state,
                    service_state >>

\* await self.db.log_phase_progression(...); return True
ProgressLog(c) ==
    /\ calls[c].pc = "log"
    /\ audit' = Append(audit, [ account_id |-> calls[c].id,
                                from_phase |-> calls[c].from_phase,
                                to_phase |-> calls[c].next_phase,
                                timestamp |-> calls[c].timestamp ])
    /\ calls' = [ calls EXCEPT ![c] = IdleCall ]
    /\ last' = [ LastNone EXCEPT !.op = "progress_account_phase",
                                 !.account = calls[c].id, !.id = c, !.ret = "true" ]
    /\ UNCHANGED << now, nticks, accounts, approval_requests, pending_approvals,
                    actions, history, current_session_data, platform_state,
                    service_state >>

PhaseTime == Days(100)

\* accounts of the ages and health around every gate; each starts in phase_1,
\* the default of the current_phase column
PhaseRows ==
    [ platform : {"tiktok"}, current_phase : {"phase_1"},
      created_at : { NoTime, PhaseTime - Days(29), PhaseTime - Days(59),
                     PhaseTime - Days(65) },
      followers_count : {10}, following_count : {20, 21},
      engagement_rate : {10, 11, 20, 50}, consecutive_errors : {0, 3, 5},
      last_action_at : { NoTime, PhaseTime - 60 } ]

InitPhase ==
    /\ InitCommon
    /\ now = PhaseTime
    /\ \E row \in PhaseRows :
          accounts = [ a \in Accounts |-> IF a = "a1" THEN row ELSE AccountRow("healthy") ]

NextPhase ==
    \/ InitializeAccountPhase("a1")
    \/ ShouldProgressPhaseCall("a1")
    \/ ProgressAccountPhase("a1")
    \/ Tick(Days(1))

SpecPhase == InitPhase /\ [][NextPhase]_vars

----------------------------------------------------------------------------
(* The risk score on its own, over accounts at every side of each factor's *)
(* thresholds.                                                             *)

ScoreTime == 2 * 60 * 60

ScoreRows ==
    [ platform : {"tiktok"}, created_at : {0}, current_phase : {"phase_1"},
      followers_count : {0, 10},
      following_count : {2, 3, 5, 6, 20, 21, 50, 51},
      engagement_rate : {9, 10, 19, 20}, consecutive_errors : {2, 3, 5, 6},
      last_action_at : { NoTime, ScoreTime - 1800, ScoreTime - 1799 } ]

InitScore ==
    /\ InitCommon
    /\ now = ScoreTime
    /\ \E row \in ScoreRows :
          accounts = [ a \in Accounts |-> IF a = "a1" THEN row ELSE AccountRow("healthy") ]

\* get_account_health(account_id)
GetAccountHealthCall(a) ==
    /\ last' = [ LastNone EXCEPT
                   !.op = "get_account_health", !.account = a,
                   !.phase = GetAccountHealth(accounts[a], now).phase,
                   !.risk_score = GetAccountHealth(accounts[a], now).risk_score ]
    /\ UNCHANGED << now, nticks, accounts, approval_requests, pending_approvals,
                    actions, history, audit, calls, current_session_data, platform_state,
                    service_state >>

NextScore ==
    \/ GetAccountHealthCall("a1")
    \/ Tick(1)

SpecScore == InitScore /\ [][NextScore]_vars

----------------------------------------------------------------------------
(* The health monitor on its own: responses of one platform arriving over  *)
(* two days.                                                               *)

InitBackoff ==
    /\ InitCommon
    /\ now = 0
    /\ accounts = [ a \in Accounts |-> AccountRow("healthy") ]

NextBackoff ==
    \/ \E code \in ResponseCodes : MonitorPlatformResponse("tiktok", code)
    \/ \E platform \in { "tiktok", "instagram" } : GetBackoffTimeCall(platform)
    \/ \E d \in { 30 * 60, Days(1) } : Tick(d)

SpecBackoff == InitBackoff /\ [][NextBackoff]_vars

----------------------------------------------------------------------------
(* Rate-limit events followed by quiet periods of half an hour, an hour    *)
(* and a day.                                                              *)

NextRecover ==
    \/ \E code \in { 200, 429 } : MonitorPlatformResponse("tiktok", code)
    \/ GetBackoffTimeCall("tiktok")
    \/ \E d \in { 30 * 60, 60 * 60, Days(1) } : Tick(d)

SpecRecover == InitBackoff /\ [][NextRecover]_vars

----------------------------------------------------------------------------
(* _call_ai_provider on a service before initialize() and on services      *)
(* initialized with every combination of API keys; each call finds some    *)
(* of the providers answering and the others raising.                      *)

InitChain ==
    /\ InitCommon
    /\ accounts = [ a \in Accounts |-> AccountRow("healthy") ]
    /\ now = 0

InitializeAI(keys) ==
    /\ ai_service = NoAIService
    /\ ai_service' = Initialized(keys)
    /\ last' = [ LastNone EXCEPT !.op = "initialize" ]
    /\ UNCHANGED << now, nticks, accounts, approval_requests, pending_approvals,
                    actions, history, audit, calls, current_session_data,
                    platform_state, auth_states, issued >>

NextChain ==
    \/ \E keys \in SUBSET AIProviders : InitializeAI(keys)
    \/ \E working \in SUBSET AIProviders : CallAIProvider(working)

SpecChain == InitChain /\ [][NextChain]_vars

----------------------------------------------------------------------------
(* Responses of two platforms observed in any order.                       *)

NextHealth ==
    \E platform \in { "tiktok", "instagram" }, code \in ResponseCodes :
        MonitorPlatformResponse(platform, code)

SpecHealth == InitBackoff /\ [][NextHealth]_vars

----------------------------------------------------------------------------
(* Requests for one account repeated without end.  The account is healthy, *)
(* the verdict is green and every collaborator works; 14 actions of the    *)
(* session are already in the action history.                              *)

\* db.get_session_action_count(account_id): the actions of the account
\* that log_action_history has recorded
GetSessionActionCount(rows, a) ==
    Len(SelectSeq(rows, LAMBDA row : row.account_id = a))

GreenLLM == [ kind |-> "dict", dict |-> [ risk_level |-> "green", confidence |-> 85 ] ]

WedgeDraws == { d \in Draws : d.burst = "lo" }

EarlierActions == 15 - 1

InitWedge ==
    /\ nticks = 0
    /\ approval_requests = << >>
    /\ pending_approvals = << >>
    /\ actions = << >>
    /\ audit = << >>
    /\ calls = [ c \in CallIds |-> IdleCall ]
    /\ platform_health = << >>
    /\ rate_limit_history = << >>
    /\ ai_service = NoAIService
    /\ auth_states = << >>
    /\ issued = 0
    /\ last = LastNone
    /\ usage_tracker = [ k \in UsageKinds |-> [ count |-> 0, last_reset |-> 0 ] ]
    /\ current_session_data = << >>
    /\ now = Days(1)
    /\ accounts = [ a \in Accounts |-> AccountRow("healthy") ]
    /\ history = [ i \in 1..EarlierActions |->
                      [ account_id |-> "a1", status |-> "success",
                        delay_before_action |-> 15, executed_at |-> Days(1) - 1 ] ]

\* execute_action(account_id, ActionType.FOLLOW, target_data), not forced
RequestAction(a, draw) ==
    ExecuteAction(a, "ActionType.FOLLOW", FALSE, GreenLLM, draw,
                  GetSessionActionCount(history, a), "success")

NextWedge ==
    \E draw \in WedgeDraws : RequestAction("a1", draw)

\* random.random() < 0.05 does not hold for ever: requests whose draw asks
\* for no random break keep arriving
SpecWedge ==
    /\ InitWedge
    /\ [][NextWedge]_vars
    /\ SF_vars(\E draw \in WedgeDraws : ~draw.random_break /\ RequestAction("a1", draw))

----------------------------------------------------------------------------
(* The OAuth login: states issued, callbacks in flight on one event loop,  *)
(* the clean-up, and the clock around the ten minutes of a state.          *)

NextOAuth ==
    \/ GenerateAuthUrl
    \/ \E c \in CallIds, state \in CallbackStates : HandleCallbackStart(c, state)
    \/ \E c \in CallIds, outcome \in ExchangeOutcomes : HandleCallbackResume(c, outcome)
    \/ CleanupExpiredStates
    \/ \E d \in { 1, StateLifetime } : Tick(d)

SpecOAuth == InitBackoff /\ [][NextOAuth]_vars

----------------------------------------------------------------------------
(* calculate_optimal_delay on its own: every hour of every weekday, every  *)
(* phase string, with and without a recent action in the session map.      *)

DelayTimes == { Days(d) + h * 3600 : d \in 0..6, h \in 0..23 }

PhaseStrings == Phases \cup { "phase_9" }

DelayDraws ==
    { d \in Draws : d.random_break = FALSE /\ d.break_len = "lo" }

\* the session map is an attribute of the simulator that its holder fills:
\* no entry, an action 119 seconds ago, an action 120 seconds ago
DelaySessions(t) ==
    { << >> } \cup
    { "a1" :> [ last_break |-> t, consecutive_actions |-> 0, last_action_time |-> x ] :
        x \in { t - 119, t - 120 } }

InitDelay ==
    /\ InitCommonButSession
    /\ now \in DelayTimes
    /\ current_session_data \in DelaySessions(now)
    /\ accounts = [ a \in Accounts |-> AccountRow("healthy") ]

CalculateOptimalDelayCall(a, phase, draw) ==
    /\ last' = [ LastNone EXCEPT
                   !.op = "calculate_optimal_delay", !.account = a, !.phase = phase,
                   !.delay = CalculateOptimalDelay(phase, now, SessionOf(a, now), draw) ]
    /\ UNCHANGED << now, nticks, accounts, approval_requests, pending_approvals,
                    actions, history, audit, calls, current_session_data, platform_state,
                    service_state >>

NextDelay ==
    \E phase \in PhaseStrings, draw \in DelayDraws :
        CalculateOptimalDelayCall("a1", phase, draw)

SpecDelay == InitDelay /\ [][NextDelay]_vars

----------------------------------------------------------------------------
(* calculate_optimal_delay called with its optional last_action_time: the  *)
(* argument is accepted and never read; _is_in_action_burst looks at the   *)
(* session map alone.                                                      *)

LastActionTimes(t) == { NoTime, t - 10, t - 119, t - 120 }

CalculateOptimalDelayAfter(a, phase, last_action_time, draw) ==
    /\ last' = [ LastNone EXCEPT
                   !.op = "calculate_optimal_delay", !.account = a, !.phase = phase,
                   !.last_action_time = last_action_time, !.draw = draw,
                   !.delay = CalculateOptimalDelay(phase, now, SessionOf(a, now), draw) ]
    /\ UNCHANGED << now, nticks, accounts, approval_requests, pending_approvals,
                    actions, history, audit, calls, current_session_data, platform_state,
                    service_state >>

NextBurst ==
    \E phase \in PhaseStrings, draw \in DelayDraws, t \in LastActionTimes(now) :
        CalculateOptimalDelayAfter("a1", phase, t, draw)

\* a peak hour, an active hour and a night hour of the first monday
BurstTimes == { Days(4) + h * 3600 : h \in { 3, 10, 13 } }

InitBurst ==
    /\ InitCommonButSession
    /\ now \in BurstTimes
    /\ current_session_data \in DelaySessions(now)
    /\ accounts = [ a \in Accounts |-> AccountRow("healthy") ]

SpecBurst == InitBurst /\ [][NextBurst]_vars

----------------------------------------------------------------------------
(* should_take_break on its own, over sessions at either side of each      *)
(* trigger.                                                                *)

BreakTime == Days(1) + 9 * 60 * 60

BreakSessions(t) ==
    { << >> } \cup
    { "a1" :> [ last_break |-> b, consecutive_actions |-> c, last_action_time |-> NoTime ] :
        b \in { t, t - 90 * 60, t - 90 * 60 - 1 }, c \in { 0, 20, 21 } }

SessionCounts == { 0, 1, 14, 15, 16, 30 }

BreakDraws ==
    { d \in Draws : d.base = "min" /\ d.modifier = "lo" /\ d.variance = "lo"
                      /\ d.burst = "lo" }

InitBreak ==
    /\ InitCommonButSession
    /\ now = BreakTime
    /\ current_session_data \in BreakSessions(now)
    /\ accounts = [ a \in Accounts |-> AccountRow("healthy") ]

ShouldTakeBreakCall(a, actions_in_session, draw) ==
    LET brk == ShouldTakeBreak(SessionOf(a, now), now, actions_in_session, draw)
    IN
    /\ last' = [ LastNone EXCEPT
                   !.op = "should_take_break", !.account = a,
                   !.actions_in_session = actions_in_session,
                   !.ret = IF brk.take THEN "true" ELSE "false",
                   !.break_duration = brk.duration ]
    /\ UNCHANGED << now, nticks, accounts, approval_requests, pending_approvals,
                    actions, history, audit, calls, current_session_data,
                    platform_state,
                    service_state >>

NextBreak ==
    \/ \E n \in SessionCounts, draw \in BreakDraws : ShouldTakeBreakCall("a1", n, draw)
    \/ Tick(1)

SpecBreak == InitBreak /\ [][NextBreak]_vars

----------------------------------------------------------------------------
(* The degradation handler on its own, over errors of up to three phrases. *)

ApiErrors == { e \in SUBSET ErrorPhrases : Cardinality(e) <= 3 }

InitDegrade ==
    /\ InitCommon
    /\ now = 0
    /\ accounts = [ a \in Accounts |-> AccountRow("healthy") ]

NextDegrade ==
    \E error \in ApiErrors : HandleApiFailure("tiktok", "follow", error)

SpecDegrade == InitDegrade /\ [][NextDegrade]_vars

----------------------------------------------------------------------------
(* The pipeline with its collaborators failing: the LLM, the platform and  *)
(* each database call.                                                     *)

FaultEnvs ==
    { [ draw |-> Steady, session_actions |-> 0, outcome |-> "success" ],
      [ draw |-> Steady, session_actions |-> 0, outcome |-> "raise" ],
      [ draw |-> Steady, session_actions |-> 15, outcome |-> "success" ] }

FaultLLM == { llm \in PipelineLLM : llm.kind = "dict" }

NextFaults ==
    \/ \E a \in Accounts, f \in BOOLEAN, llm \in PipelineLLM, e \in FaultEnvs :
          ExecuteAction(a, "ActionType.FOLLOW", f, llm, e.draw, e.session_actions,
                        e.outcome)
    \/ \E a \in Accounts, f \in BOOLEAN, llm \in FaultLLM, n \in { 0, 15 },
          step \in FaultSteps, exc \in { "PostgresError", "HTTPException" } :
          ExecuteActionFault(a, "ActionType.FOLLOW", f, llm, Steady, n, step, exc)

SpecFaults == InitPipeline /\ [][NextFaults]_vars

----------------------------------------------------------------------------
(* Two follow_user calls on one TikTokService, half an hour after the      *)
(* counters were reset and two follows short of the hourly limit.          *)

InitUsage ==
    /\ InitStores
    /\ current_session_data = << >>
    /\ usage_tracker =
          [ k \in UsageKinds |->
              [ count |-> IF k = "follows" THEN FollowsPerHour - 2 ELSE 0,
                last_reset |-> 0 ] ]
    /\ now = 30 * 60
    /\ accounts = [ a \in Accounts |-> AccountRow("healthy") ]

NextUsage ==
    \/ \E c \in CallIds, safe \in BOOLEAN : FollowUserStart(c, safe)
    \/ \E c \in CallIds, outcome \in Outcomes : FollowUserResume(c, outcome)
    \/ Tick(1)

SpecUsage == InitUsage /\ [][NextUsage]_vars

----------------------------------------------------------------------------
(* Two progress_account_phase calls at a time, on an account old and       *)
(* healthy enough for both promotions and on one that is not.              *)

InitRace ==
    /\ InitCommon
    /\ now = PhaseTime
    /\ accounts =
          [ a \in Accounts |->
              [ AccountRow("healthy") EXCEPT
                  !.created_at = PhaseTime - Days(IF a = "a1" THEN 65 ELSE 29) ] ]

NextRace ==
    \/ \E c \in CallIds, a \in Accounts : ProgressCheck(c, a)
    \/ \E c \in CallIds : ProgressUpdate(c)
    \/ \E c \in CallIds : ProgressReadFrom(c)
    \/ \E c \in CallIds : ProgressLog(c)
    \/ Tick(Days(1))

SpecRace == InitRace /\ [][NextRace]_vars

----------------------------------------------------------------------------
(* Claims *)

\* the platform executor ran during the most recent call
ExecutorInvoked == \E i \in DOMAIN last.trace : last.trace[i] = "platform.execute_action"

\* C1: an execute_action call whose assessment requires approval, not
\* forced, stores one new pending request, returns approval_required with
\* that request's id and never invokes the platform executor; the executor
\* is invoked only on calls whose assessment required no approval or that
\* were forced.
C1_ApprovalParksTheAction ==
    [][ last'.op = "execute_action" =>
          /\ ( /\ last'.assessment.kind = "assessment"
               /\ last'.assessment.requires_human_approval
               /\ ~last'.force ) =>
                  /\ last'.status = "approval_required"
                  /\ Len(approval_requests') = Len(approval_requests) + 1
                  /\ approval_requests' =
                        Append(approval_requests,
                               [ approval_id |-> last'.id, account_id |-> last'.account,
                                 status |-> "pending", resolved_by |-> "",
                                 requested_at |-> now ])
                  /\ last'.id \in DOMAIN pending_approvals'
                  /\ ~ExecutorInvoked'
                  /\ UNCHANGED << history, now >>
          /\ ExecutorInvoked' =>
                  /\ last'.assessment.kind = "assessment"
                  /\ ~last'.assessment.requires_human_approval \/ last'.force ]_vars

\* a PHASE_1 call judged RED and not forced: parked, nothing executed
C1_Witness ==
    /\ last.op = "execute_action"
    /\ last.assessment.risk_level = "red"
    /\ ~last.force
    /\ last.status = "approval_required"
    /\ Len(approval_requests) = 1
    /\ approval_requests[1].approval_id = last.id
    /\ history = << >>

Assessed == last.op = "assess_action_risk" /\ last.assessment.kind = "assessment"

\* what the LLM said, case folded; NoKey when the verdict has no risk_level
LLMSaid == IF last.llm.dict.risk_level = NoKey THEN NoKey
           ELSE Lower(last.llm.dict.risk_level)

\* C2: in PHASE_1 an LLM verdict of yellow or red yields RED, and the final
\* level is GREEN only when the LLM verdict is green.
C2_Phase1OnlyGreenPasses ==
    (Assessed /\ last.phase = "phase_1") =>
        /\ LLMSaid \in {"yellow", "red"} => last.assessment.risk_level = "red"
        /\ last.assessment.risk_level = "green" => LLMSaid = "green"

\* the PHASE_2 / PHASE_3 table of the design, by its thresholds
C3_Table(said, score, upper, lower) ==
    IF said = "red" \/ score > upper * ScoreUnit THEN "red"
    ELSE IF said = "yellow" \/ score > lower * ScoreUnit THEN "yellow"
    ELSE "green"

\* the verdict the table is read with: a verdict without the risk_level key
\* counts as the documented default, yellow
C3_Verdict == IF LLMSaid = NoKey THEN "yellow" ELSE LLMSaid

\* C3: in PHASE_2 (0.6 / 0.3) and PHASE_3 (0.8 / 0.5), for every LLM verdict
\* and every risk score, the final level is RED if the LLM says red or the
\* score is above the upper threshold, else YELLOW if the LLM says yellow or
\* the score is above the lower one, else GREEN.
C3_PhaseThresholds ==
    Assessed =>
        /\ last.phase = "phase_2" =>
              last.assessment.risk_level = C3_Table(C3_Verdict, last.risk_score, 6, 3)
        /\ last.phase = "phase_3" =>
              last.assessment.risk_level = C3_Table(C3_Verdict, last.risk_score, 8, 5)

\* a PHASE_2 account whose score alone (0.6000000000000001) makes a green
\* verdict RED, and a PHASE_3 account for which the same score is YELLOW
C3_Witness ==
    /\ Assessed
    /\ LLMSaid = "green"
    /\ last.risk_score > 6 * ScoreUnit
    /\ last.risk_score < 7 * ScoreUnit
    /\ \/ last.phase = "phase_2" /\ last.assessment.risk_level = "red"
       \/ last.phase = "phase_3" /\ last.assessment.risk_level = "yellow"

\* C4: every RiskAssessment returned has requires_human_approval true
\* exactly when its risk_level is not GREEN.
C4_ApprovalIffNotGreen ==
    Assessed =>
        (last.assessment.requires_human_approval
            <=> last.assessment.risk_level # "green")

C4_Witness ==
    /\ Assessed
    /\ last.assessment.risk_level = "yellow"
    /\ last.assessment.requires_human_approval

\* C5: when the LLM call raises, assess_action_risk still returns a
\* RiskAssessment, with confidence 0.0 and risk_level YELLOW or RED.
C5_LLMFailureAbsorbed ==
    ( /\ last.op = "assess_action_risk"
      /\ HasValueAttr(last.action_type)
      /\ last.llm.kind = "raise" ) =>
        /\ last.assessment.kind = "assessment"
        /\ last.assessment.confidence = 0
        /\ last.assessment.risk_level \in {"yellow", "red"}

\* C6: a verdict without a risk_level key, or the substituted default
\* verdict, never yields GREEN, in any phase and for any risk score.
C6_MissingLevelNeverGreen ==
    ( /\ Assessed
      /\ \/ last.llm.dict.risk_level = NoKey
         \/ last.llm.dict = DefaultRiskResult ) =>
        last.assessment.risk_level # "green"

\* a PHASE_3 account with a zero risk score and a verdict without the key
C6_Witness ==
    /\ Assessed
    /\ last.llm.dict.risk_level = NoKey
    /\ last.phase = "phase_3"
    /\ last.risk_score = 0
    /\ last.assessment.risk_level = "yellow"

Terminal == { "approved", "rejected" }

\* C7: a request that has reached APPROVED or REJECTED never changes status
\* again (and stays stored), over any sequence of workflow calls.
C7_TerminalIsFinal ==
    [][ \A i \in DOMAIN approval_requests :
          approval_requests[i].status \in Terminal =>
              /\ i \in DOMAIN approval_requests'
              /\ approval_requests'[i].status = approval_requests[i].status ]_vars

\* a request resolved earlier, and a later call on its id that was refused
C7_Witness ==
    /\ last.op \in {"approve_action", "reject_action"}
    /\ last.ret = "false"
    /\ \E i \in DOMAIN approval_requests :
          /\ approval_requests[i].approval_id = last.id
          /\ approval_requests[i].status \in Terminal

\* the id names no stored request, or a request already approved or rejected
Unresolvable(rows, approval_id) ==
    \/ \A i \in DOMAIN rows : rows[i].approval_id # approval_id
    \/ \E i \in DOMAIN rows :
          rows[i].approval_id = approval_id /\ rows[i].status \in Terminal

\* C8: approve_action or reject_action on an id that does not exist or is
\* already resolved returns false (the endpoint answers 404, not success)
\* and leaves the stored requests and the pending map unchanged.
C8_RefusedCallChangesNothing ==
    [][ ( /\ last'.op \in {"approve_action", "reject_action"}
          /\ last'.http # 500
          /\ Unresolvable(approval_requests, last'.id) ) =>
            /\ last'.ret = "false"
            /\ last'.http \in {0, 404}
            /\ UNCHANGED << approval_requests, pending_approvals >> ]_vars

\* an approve through the endpoint on an already rejected request
C8_Witness ==
    /\ last.op = "approve_action"
    /\ last.ret = "false"
    /\ last.http = 404
    /\ \E i \in DOMAIN approval_requests :
          /\ approval_requests[i].approval_id = last.id
          /\ approval_requests[i].status = "rejected"

\* C9: of two approve/reject calls on the same pending id, interleaved at
\* their awaits, exactly one returns true and the final status is the one
\* that call wrote.
C9_ExactlyOneWins ==
    \A c, d \in CallIds :
        ( /\ c # d
          /\ calls[c].pc = "done" /\ calls[d].pc = "done"
          /\ calls[c].id = calls[d].id
          /\ calls[c].seen = "pending" ) =>
            /\ calls[c].ret = "true"
            /\ calls[d].ret = "false"
            /\ GetApprovalRequest(approval_requests, calls[c].id).status
                  = StatusWrittenBy(calls[c].op)

PendingIds(rows, account_id) ==
    { rows[i].approval_id :
        i \in { j \in DOMAIN rows :
                  /\ rows[j].status = "pending"
                  /\ account_id = NoAccount \/ rows[j].account_id = account_id } }

\* C10: get_pending_approvals returns exactly the requests created by
\* request_approval and not yet approved or rejected (with an account
\* filter, those of that account).
C10_ListsExactlyThePending ==
    last.op = "get_pending_approvals" =>
        { last.listing[i] : i \in DOMAIN last.listing }
            = PendingIds(approval_requests, last.account)

Resolving == { "approve_action", "reject_action" }

\* C11: a pending request stays stored and PENDING in every step that is not
\* an approve_action or reject_action on its own id: reads, is_action_approved,
\* operations on other ids, execute_action calls and the passage of time
\* leave it as it is.
C11_OnlyOwnResolutionChangesPending ==
    [][ \A i \in DOMAIN approval_requests :
          ( /\ approval_requests[i].status = "pending"
            /\ ~( /\ last'.op \in Resolving
                  /\ last'.id = approval_requests[i].approval_id ) ) =>
              /\ i \in DOMAIN approval_requests'
              /\ approval_requests'[i] = approval_requests[i] ]_vars

\* a request still pending after the clock moved and its status was asked for
C11_Witness ==
    /\ last.op = "is_action_approved"
    /\ last.ret = "none"
    /\ \E i \in DOMAIN approval_requests :
          /\ approval_requests[i].approval_id = last.id
          /\ approval_requests[i].status = "pending"
          /\ approval_requests[i].requested_at < now
    /\ \E j \in DOMAIN approval_requests : approval_requests[j].status \in Terminal

\* C12: no step removes a stored approval request or changes its id, and the
\* id request_approval returns resolves to a stored request; approve and
\* reject only write the status and drop the id from the pending map.
C12_RequestsAreNeverDeleted ==
    [][ /\ \A i \in DOMAIN approval_requests :
              /\ i \in DOMAIN approval_requests'
              /\ approval_requests'[i].approval_id = approval_requests[i].approval_id
        /\ (last'.op = "request_approval" /\ last'.ret = "id") =>
              GetApprovalRequest(approval_requests', last'.id) # NoRow
        /\ (last'.op \in Resolving /\ last'.ret = "true") =>
              /\ GetApprovalRequest(approval_requests', last'.id).status
                    = StatusWrittenBy(last'.op)
              /\ last'.id \notin DOMAIN pending_approvals' ]_vars

\* an approved request, gone from the pending map and still stored
C12_Witness ==
    /\ last.op = "approve_action"
    /\ last.ret = "true"
    /\ last.id \notin DOMAIN pending_approvals
    /\ GetApprovalRequest(approval_requests, last.id).status = "approved"

\* C13: the id is built from the account id and the whole second: a new
\* request has the id of an earlier one exactly when both are for the same
\* account in the same second, and then it takes the earlier one's place in
\* the pending map instead of adding an entry.
C13_IdsCollideWithinASecond ==
    [][ (last'.op = "request_approval" /\ last'.ret = "id") =>
          LET new == approval_requests'[Len(approval_requests')]
          IN  /\ new.approval_id = last'.id
              /\ \A i \in DOMAIN approval_requests :
                    (approval_requests[i].approval_id = new.approval_id)
                      <=> ( /\ approval_requests[i].account_id = new.account_id
                            /\ approval_requests[i].requested_at = new.requested_at )
              /\ pending_approvals'[new.approval_id] = new
              /\ DOMAIN pending_approvals' =
                    DOMAIN pending_approvals \cup { new.approval_id } ]_vars

\* two stored requests of one account and one second under a single id, with
\* a single entry in the pending map
C13_Witness ==
    /\ last.op = "request_approval"
    /\ Len(approval_requests) = 2
    /\ approval_requests[1].approval_id = approval_requests[2].approval_id
    /\ Cardinality(DOMAIN pending_approvals) = 1

\* the gates of the two transitions, as the design states them
GateToPhase2(data, t, score) ==
    /\ data.current_phase = "phase_1"
    /\ data.created_at # NoTime
    /\ t - data.created_at >= Days(30)
    /\ score < 3 * ScoreUnit
    /\ data.consecutive_errors < 3
    /\ data.engagement_rate > 10

GateToPhase3(data, t, score) ==
    /\ data.current_phase = "phase_2"
    /\ data.created_at # NoTime
    /\ t - data.created_at >= Days(60)
    /\ score < 4 * ScoreUnit
    /\ data.consecutive_errors < 5
    /\ data.engagement_rate > 20

\* C14: should_progress_phase answers (true, PHASE_2) exactly when the account
\* is in PHASE_1 with age >= 30 days, risk < 0.3, errors < 3 and engagement
\* > 0.01, (true, PHASE_3) exactly when it is in PHASE_2 with age >= 60 days,
\* risk < 0.4, errors < 5 and engagement > 0.02, and (false, current phase)
\* in every other case.
C14_ProgressionTable ==
    last.op = "should_progress_phase" =>
        LET data == accounts[last.account]
            to2 == GateToPhase2(data, now, last.risk_score)
            to3 == GateToPhase3(data, now, last.risk_score)
        IN  /\ (last.ret = "true" /\ last.status = "phase_2") <=> to2
            /\ (last.ret = "true" /\ last.status = "phase_3") <=> to3
            /\ (~to2 /\ ~to3) =>
                  (last.ret = "false" /\ last.status = data.current_phase)

\* the scenario of the design: PHASE_2, 65 days, risk 0.2, no errors,
\* engagement 0.05, answered (true, PHASE_3)
C14_Witness ==
    /\ last.op = "should_progress_phase"
    /\ accounts[last.account].current_phase = "phase_2"
    /\ now - accounts[last.account].created_at = Days(65)
    /\ last.risk_score = 2 * ScoreUnit
    /\ accounts[last.account].consecutive_errors = 0
    /\ accounts[last.account].engagement_rate = 50
    /\ last.ret = "true"
    /\ last.status = "phase_3"

\* C15: an account younger than 30 days is in PHASE_1, whatever calls of
\* initialize_account_phase and progress_account_phase were made and
\* whatever its health.
C15_Under30DaysStaysPhase1 ==
    \A a \in Accounts :
        ( /\ accounts[a].created_at # NoTime
          /\ now - accounts[a].created_at < Days(30) ) =>
            accounts[a].current_phase = "phase_1"

\* a 29 day old account in perfect health, refused by progress_account_phase
C15_Witness ==
    /\ last.op = "progress_account_phase"
    /\ last.ret = "false"
    /\ now - accounts[last.account].created_at = Days(29)
    /\ last.risk_score = 0
    /\ accounts[last.account].engagement_rate = 50
    /\ accounts[last.account].consecutive_errors = 0
    /\ accounts[last.account].current_phase = "phase_1"

PhaseRank(phase) ==
    CASE phase = "phase_1" -> 1 [] phase = "phase_2" -> 2 [] phase = "phase_3" -> 3

C17_NoPromotionOnAgeAlone ==
    [][ \A a \in Accounts :
          PhaseRank(accounts'[a].current_phase)
              > PhaseRank(accounts[a].current_phase) =>
            \/ /\ accounts'[a].current_phase = "phase_2"
               /\ GateToPhase2(accounts[a], now, CalculateRiskScore(accounts[a], now))
            \/ /\ accounts'[a].current_phase = "phase_3"
               /\ GateToPhase3(accounts[a], now, CalculateRiskScore(accounts[a], now))
      ]_vars

\* C18: progress_account_phase called while neither transition's gates hold
\* returns false, stores no phase and writes no audit entry.
C18_UnmetGuardsChangeNothing ==
    [][ ( /\ last'.op = "progress_account_phase"
          /\ ~GateToPhase2(accounts[last'.account], now, last'.risk_score)
          /\ ~GateToPhase3(accounts[last'.account], now, last'.risk_score) ) =>
            /\ last'.ret = "false"
            /\ UNCHANGED << accounts, audit >> ]_vars

\* a 30 day old PHASE_1 account refused for its engagement, nothing logged
C18_Witness ==
    /\ last.op = "progress_account_phase"
    /\ last.ret = "false"
    /\ accounts[last.account].created_at # NoTime
    /\ now - accounts[last.account].created_at >= Days(30)
    /\ accounts[last.account].current_phase = "phase_1"
    /\ accounts[last.account].engagement_rate = 10
    /\ audit = << >>

\* C19: a successful progress_account_phase appends one audit entry whose
\* from-phase is the phase before the transition and whose to-phase is the
\* phase after it.
C19_AuditNamesBothPhases ==
    [][ (last'.op = "progress_account_phase" /\ last'.ret = "true") =>
          /\ Len(audit') = Len(audit) + 1
          /\ audit'[Len(audit')].from_phase = accounts[last'.account].current_phase
          /\ audit'[Len(audit')].to_phase = accounts'[last'.account].current_phase
          /\ audit'[Len(audit')].from_phase # audit'[Len(audit')].to_phase ]_vars

\* the four factors as the design states them, in tenths
C20_F(data) ==
    LET floor == IF data.followers_count >= 1 THEN data.followers_count ELSE 1
    IN  IF data.following_count > 5 * floor THEN 4
        ELSE IF data.following_count > 2 * floor THEN 2 ELSE 0

C20_E(data) ==
    IF data.engagement_rate < 10 THEN 3 ELSE IF data.engagement_rate < 20 THEN 1 ELSE 0

C20_C(data) ==
    IF data.consecutive_errors > 5 THEN 3
    ELSE IF data.consecutive_errors > 2 THEN 1 ELSE 0

C20_R(data, t) ==
    IF data.last_action_at # NoTime /\ t - data.last_action_at < 30 * 60 THEN 2 ELSE 0

\* C20: for every account the risk score is min(F + E + C + R, 1.0), with F
\* 0.4 / 0.2 / 0 by follow ratio (> 5, > 2), E 0.3 / 0.1 / 0 by engagement
\* (< 0.01, < 0.02), C 0.3 / 0.1 / 0 by errors (> 5, > 2) and R 0.2 when the
\* last action is under 30 minutes old; it lies in [0, 1].  The score is a
\* double: it is within one rounding error of the decimal sum.
C20_ScoreIsCappedSum ==
    last.op = "get_account_health" =>
        LET data == accounts[last.account]
            sum == C20_F(data) + C20_E(data) + C20_C(data) + C20_R(data, now)
            capped == IF sum > 10 THEN 10 ELSE sum
        IN  /\ last.risk_score >= capped * ScoreUnit - 1
            /\ last.risk_score <= capped * ScoreUnit + 1
            /\ last.risk_score >= 0
            /\ last.risk_score <= 10 * ScoreUnit

\* every factor at its highest: 0.4 + 0.3 + 0.3 + 0.2, capped at 1.0, for an
\* account without followers
C20_Witness ==
    /\ last.op = "get_account_health"
    /\ accounts[last.account].followers_count = 0
    /\ accounts[last.account].following_count = 6
    /\ accounts[last.account].engagement_rate = 9
    /\ accounts[last.account].consecutive_errors = 6
    /\ now - accounts[last.account].last_action_at = 1799
    /\ last.risk_score = 10 * ScoreUnit

\* following / max(followers, 1) of d2 is at least that of d1
C21_RatioAtLeast(d2, d1) ==
    LET m1 == IF d1.followers_count >= 1 THEN d1.followers_count ELSE 1
        m2 == IF d2.followers_count >= 1 THEN d2.followers_count ELSE 1
    IN  d2.following_count * m1 >= d1.following_count * m2

\* the last action of d2 is at least as recent as that of d1 (no last action
\* at all being the least recent)
C21_AtLeastAsRecent(d2, d1) ==
    \/ d1.last_action_at = NoTime
    \/ d2.last_action_at # NoTime /\ d2.last_action_at >= d1.last_action_at

\* d2 is d1 with one risk factor raised and the other metrics unchanged
C21_OneFactorRaised(d2, d1) ==
    \/ /\ C21_RatioAtLeast(d2, d1)
       /\ d2.engagement_rate = d1.engagement_rate
       /\ d2.consecutive_errors = d1.consecutive_errors
       /\ d2.last_action_at = d1.last_action_at
    \/ /\ d2.engagement_rate <= d1.engagement_rate
       /\ d2.followers_count = d1.followers_count
       /\ d2.following_count = d1.following_count
       /\ d2.consecutive_errors = d1.consecutive_errors
       /\ d2.last_action_at = d1.last_action_at
    \/ /\ d2.consecutive_errors >= d1.consecutive_errors
       /\ d2.followers_count = d1.followers_count
       /\ d2.following_count = d1.following_count
       /\ d2.engagement_rate = d1.engagement_rate
       /\ d2.last_action_at = d1.last_action_at
    \/ /\ C21_AtLeastAsRecent(d2, d1)
       /\ d2.followers_count = d1.followers_count
       /\ d2.following_count = d1.following_count
       /\ d2.engagement_rate = d1.engagement_rate
       /\ d2.consecutive_errors = d1.consecutive_errors

\* C21: the risk score is monotone in each risk factor taken alone: with the
\* other metrics held fixed, a higher follow ratio, more consecutive errors,
\* a lower engagement rate or a more recent last action never lowers it.
C21_ScoreIsMonotone ==
    last.op = "get_account_health" =>
        \A d2 \in ScoreRows :
            C21_OneFactorRaised(d2, accounts[last.account]) =>
                CalculateRiskScore(d2, now) >= last.risk_score

\* 0.4 + 0.3 scored as 0.7; three errors instead of two make it
\* 0.7999999999999999, below the decimal sum and still above 0.7
C21_Witness ==
    /\ last.op = "get_account_health"
    /\ last.risk_score = 7 * ScoreUnit
    /\ accounts[last.account].consecutive_errors = 2
    /\ CalculateRiskScore([ accounts[last.account] EXCEPT !.consecutive_errors = 3 ], now)
         = 8 * ScoreUnit - 1

\* C22: calculate_optimal_delay returns at least 15 seconds for every phase
\* string, known or unknown, every hour and weekday, every draw of its random
\* multipliers, in a burst or not.
C22_DelayAtLeast15 ==
    last.op = "calculate_optimal_delay" => last.delay >= 15

\* the aggressive pattern in a burst at a sunday peak hour, where the product
\* itself is far under 15 at either end of the draws
C22_Witness ==
    /\ last.op = "calculate_optimal_delay"
    /\ last.phase = "phase_3"
    /\ DayOfWeek(now) = 6
    /\ IsPeakHours(Hour(now), Aggressive)
    /\ IsInActionBurst(SessionOf(last.account, now), now)
    /\ last.delay = 15

\* the rate-limit events of a platform in the last hour
C23_Recent(platform) ==
    Cardinality({ i \in DOMAIN HistoryOf(rate_limit_history, platform) :
                    now - HistoryOf(rate_limit_history, platform)[i] < 60 * 60 })

C23_Backoff(n) ==
    CASE n = 0 -> 60 [] n = 1 -> 120 [] n = 2 -> 240 [] n = 3 -> 480
      [] n = 4 -> 960 [] n = 5 -> 1920 [] OTHER -> 3600

\* C23: the backoff of a platform with n rate-limit events in the last hour
\* is min(60 * 2^n, 3600) seconds: 60 for none, 480 for three, 3600 from six
\* on; it never exceeds 3600 and is never under the backoff of fewer events.
C23_BackoffDoublesToAnHour ==
    last.op \in { "_get_backoff_time", "monitor_platform_response" }
      /\ (last.op = "monitor_platform_response" => last.status = "rate_limited") =>
        /\ last.backoff_seconds = C23_Backoff(C23_Recent(last.platform))
        /\ last.backoff_seconds <= 3600
        /\ \A fewer \in 0..C23_Recent(last.platform) :
              C23_Backoff(fewer) <= last.backoff_seconds

\* the seventh 429 of the hour is answered with the ceiling
C23_Witness ==
    /\ last.op = "monitor_platform_response"
    /\ last.status = "rate_limited"
    /\ C23_Recent(last.platform) = 7
    /\ last.backoff_seconds = 3600

C25_Every15thActionBreaks ==
    last.op = "should_take_break" =>
        /\ last.actions_in_session > 0 /\ last.actions_in_session % 15 = 0
             => last.ret = "true" /\ last.break_duration > 0
        /\ last.ret = "false" => last.break_duration = 0

\* the 30th action of a fresh session, no other trigger applying: the
\* periodic break of 3 minutes
C25_Witness ==
    /\ last.op = "should_take_break"
    /\ last.actions_in_session = 30
    /\ SessionOf(last.account, now).consecutive_actions = 0
    /\ now - SessionOf(last.account, now).last_break <= 90 * 60
    /\ last.ret = "true"
    /\ last.break_duration = 3 * 60

\* the error's message mentions one of these phrases, in either case
C26_Mentions(error, phrases) == error \cap phrases # {}

C26_Class(error) ==
    IF C26_Mentions(error, { "Rate Limit", "429" }) THEN "rate_limit"
    ELSE IF C26_Mentions(error, { "Unauthorized", "401" }) THEN "authentication"
    ELSE IF C26_Mentions(error, { "Not Found", "404" }) THEN "api_change"
    ELSE IF C26_Mentions(error, { "Network", "Timeout", "timeout" }) THEN "network"
    ELSE "unknown"

\* C26: handle_api_failure gives every error one class by first match in the
\* order rate_limit, authentication, api_change, network, unknown and returns
\* that class's fixed action: pause_and_retry, pause_service with manual
\* intervention, disable_service, retry_with_backoff, pause_and_alert with
\* investigation required.  An error matching no pattern is never answered
\* with a retry action.
C26_FixedActionPerClass ==
    last.op = "handle_api_failure" =>
        LET class == C26_Class(last.error)
            result == last.result
        IN  /\ class = "rate_limit" => result.action = "pause_and_retry"
            /\ class = "authentication" =>
                  /\ result.action = "pause_service"
                  /\ result.require_manual_intervention
            /\ class = "api_change" => result.action = "disable_service"
            /\ class = "network" => result.action = "retry_with_backoff"
            /\ class = "unknown" =>
                  /\ result.action = "pause_and_alert"
                  /\ result.require_investigation
                  /\ result.action \notin { "pause_and_retry", "retry_with_backoff" }

\* a timeout that also carries a 404: the earlier class answers
C26_Witness ==
    /\ last.op = "handle_api_failure"
    /\ last.error = { "Timeout", "404" }
    /\ last.result.action = "disable_service"

\* C27: execute_action never lets an exception escape: whatever the
\* database, the LLM and the platform service do at any step, returning or
\* raising, it returns a result whose status is approval_required,
\* break_required, error or the platform's own.
C27_NoExceptionEscapes ==
    last.op = "execute_action" =>
        /\ last.ret # "raised"
        /\ last.status \in { "approval_required", "break_required", "error",
                              "success", "failed" }

\* the action was executed on the platform and the write of its history row
\* failed: the answer is an error
C27_Witness ==
    /\ last.op = "execute_action"
    /\ last.trace = StepsToBreak \o << "sleep", "platform.execute_action" >>
    /\ last.delay > 0
    /\ now = Days(30) + last.delay
    /\ history = << >>
    /\ last.status = "error"

C28_StepsToResult == StepsToBreak \o << "sleep", "platform.execute_action",
                                        "log_action_history", "progress_account_phase" >>

\* C28: in an execute_action call that is not parked the steps come in the
\* order delay computed, break check, wait for the delay, platform execution,
\* result logged, phase-progression check: the platform's result is logged
\* at the time the wait ended with the delay computed before it, a failure
\* of the platform or of the logging leaves no row and no phase change, and
\* a failure of the progression leaves the row.  A call answered
\* break_required waits for nothing, executes nothing, logs nothing and
\* checks no progression.
C28_StepsInOrder ==
    [][ last'.op = "execute_action" =>
          /\ last'.status = "break_required" =>
                /\ last'.trace = StepsToBreak
                /\ last'.delay >= 15
                /\ now' = now /\ history' = history
                /\ accounts' = accounts /\ audit' = audit
          /\ last'.status \in { "success", "failed" } =>
                /\ last'.trace = C28_StepsToResult
                /\ last'.delay = CalculateOptimalDelay(accounts[last'.account].current_phase,
                                      now, SessionOf(last'.account, now), Steady)
                /\ now' = now + last'.delay
                /\ history' = Append(history,
                                  [ account_id |-> last'.account,
                                    status |-> last'.status,
                                    delay_before_action |-> last'.delay,
                                    executed_at |-> now' ])
                /\ accounts'[last'.account].current_phase =
                      ShouldProgressPhase(accounts[last'.account], now').phase
          /\ last'.status = "error" /\ Len(last'.trace) = Len(StepsToBreak) + 2 =>
                /\ now' = now + last'.delay
                /\ history' = history /\ accounts' = accounts /\ audit' = audit
          /\ last'.status = "error" /\ Len(last'.trace) = Len(StepsToBreak) + 3 =>
                /\ now' = now + last'.delay
                /\ Len(history') = Len(history) + 1
                /\ history'[Len(history')].executed_at = now'
      ]_vars

\* a call that ran to the end: the row carries the time after the wait
C28_Witness ==
    /\ last.op = "execute_action"
    /\ last.status = "success"
    /\ last.trace = C28_StepsToResult
    /\ last.delay > 0
    /\ now = Days(30) + last.delay
    /\ Len(history) = 1
    /\ history[1].executed_at = now

C29_Follows == usage_tracker["follows"].count

\* C29: concurrent follow_user calls race on the hourly counter.  The
\* counter goes beyond the limit, and it does so only by the increment of a
\* call that passed its check below the limit and slept while another call
\* incremented; with two calls it ends at most one above the limit.
C29_OverLimitOnlyByRace ==
    [][ /\ usage_tracker'["follows"].count > FollowsPerHour =>
              \/ usage_tracker'["follows"].count = C29_Follows
              \/ \E c \in CallIds :
                    /\ calls[c].pc = "sleeping" /\ calls'[c].pc = "idle"
                    /\ calls[c].seen < FollowsPerHour
                    /\ calls[c].seen < C29_Follows
                    /\ usage_tracker'["follows"].count = C29_Follows + 1
        /\ usage_tracker'["follows"].count <= FollowsPerHour + Cardinality(CallIds) - 1
      ]_vars

\* both calls passed the check at limit - 1 and both incremented
C29_Witness ==
    /\ C29_Follows = FollowsPerHour + 1
    /\ \A c \in CallIds : calls[c].pc = "idle"
    /\ last.op = "follow_user" /\ last.ret = "true"

\* the audit entries that record a change of the account to the phase
C30_Entries(a, phase) ==
    { i \in DOMAIN audit : audit[i].account_id = a /\ audit[i].to_phase = phase }

\* C30: concurrent progress_account_phase calls race on the transition: the
\* calls that found the guards satisfied before the first of them wrote the
\* phase all write it and all append an audit entry, so the one change to
\* PHASE_2 is recorded once per such call, by up to as many entries as there
\* are calls in flight; entries are written for eligible accounts only.
C30_OneEntryPerRacingCall ==
    \A a \in Accounts :
        /\ Cardinality(C30_Entries(a, "phase_2")) <= Cardinality(CallIds)
        /\ Cardinality(C30_Entries(a, "phase_2")) > 0 =>
              /\ DaysActive(accounts[a], now) >= 30
              /\ accounts[a].current_phase # "phase_1"

\* both calls saw phase_1, both wrote phase_2, and the log has two entries
\* for the one change
C30_Witness ==
    /\ \A c \in CallIds : calls[c].pc = "idle"
    /\ accounts["a1"].current_phase = "phase_2"
    /\ Len(audit) = 2
    /\ Cardinality(C30_Entries("a1", "phase_2")) = 2

----------------------------------------------------------------------------
\* C31: a call whose last action (its last_action_time argument, or the
\* account's recorded session) was less than 120 seconds ago returns the
\* delay scaled by the burst factor before the 15-second floor; a call
\* whose last action was 120 seconds or more ago, or that has none,
\* returns the delay unscaled.
C31_LastAction(t) ==
    IF last.last_action_time # NoTime THEN last.last_action_time
    ELSE SessionOf(last.account, t).last_action_time

C31_Unscaled ==
    CalculateOptimalDelay_NoFloor(last.phase, now, NoSession(now), last.draw)

C31_BurstScalesDelay ==
    last.op = "calculate_optimal_delay" /\ last.draw # << >> =>
        IF C31_LastAction(now) # NoTime /\ now - C31_LastAction(now) < 120
          THEN last.delay = Max((C31_Unscaled * Pick(last.draw.burst, 32, 68)) \div 100, 15)
          ELSE last.delay = Max(C31_Unscaled, 15)

----------------------------------------------------------------------------
\* C32: once a full hour has passed since the platform's latest rate-limit
\* event the backoff computed for it is 60 seconds again, and right after a
\* rate-limit observation the platform's history holds only events of the
\* last 24 hours.
C32_QuietForAnHour(platform) ==
    \/ platform \notin DOMAIN platform_health
    \/ platform_health[platform].last_rate_limit = NoTime
    \/ now - platform_health[platform].last_rate_limit >= 60 * 60

C32_OnlyTheLastDay(platform) ==
    LET events == HistoryOf(rate_limit_history, platform)
    IN  \A i \in DOMAIN events : now - events[i] < Days(1)

C32_BackoffRecovers ==
    /\ last.op = "_get_backoff_time" /\ C32_QuietForAnHour(last.platform)
           => last.backoff_seconds = 60
    /\ last.op = "monitor_platform_response" /\ last.status = "rate_limited"
           => C32_OnlyTheLastDay(last.platform)

\* two events a day apart, the older one dropped from the history, then an
\* hour without events
C32_Witness ==
    /\ last.op = "_get_backoff_time"
    /\ last.platform = "tiktok"
    /\ last.backoff_seconds = 60
    /\ "tiktok" \in DOMAIN platform_health
    /\ platform_health["tiktok"].rate_limit_count = 2
    /\ Len(HistoryOf(rate_limit_history, "tiktok")) = 1
    /\ now - platform_health["tiktok"].last_rate_limit = 60 * 60

----------------------------------------------------------------------------
\* C33: _call_ai_provider invokes the configured providers in the order
\* current provider, then the fallback list; it stops at the first one that
\* answers and returns its response; every provider that failed before it
\* has one more failure recorded and no other counter of failures moves;
\* it raises exactly when no configured provider answered.
C33_Configured ==
    SelectSeq(<< ai_service.current_provider >> \o ai_service.fallback_providers,
              LAMBDA p : p \in ai_service.providers)

C33_Count(stats, provider, field) ==
    IF provider \in DOMAIN stats THEN stats[provider][field] ELSE 0

C33_Failed(invoked, answered) ==
    { invoked[i] : i \in DOMAIN invoked } \ { answered }

C33_FirstSuccessWins ==
    [][ last'.op = "_call_ai_provider" =>
          LET invoked == last'.trace
              answered == last'.ret
              order == C33_Configured
          IN  /\ Len(invoked) <= Len(order)
              /\ invoked = SubSeq(order, 1, Len(invoked))
              /\ \A i \in DOMAIN invoked :
                     invoked[i] \in last'.working <=> (i = Len(invoked) /\ answered # "raise")
              /\ answered # "raise" =>
                     invoked # << >> /\ answered = invoked[Len(invoked)]
              /\ answered = "raise" <=>
                     \A i \in DOMAIN order : order[i] \notin last'.working
              /\ answered = "raise" => invoked = order
              /\ \A p \in AIProviders :
                     /\ C33_Count(ai_service'.provider_stats, p, "failure") =
                            C33_Count(ai_service.provider_stats, p, "failure")
                              + (IF p \in C33_Failed(invoked, answered) THEN 1 ELSE 0)
                     /\ C33_Count(ai_service'.provider_stats, p, "success") =
                            C33_Count(ai_service.provider_stats, p, "success")
                              + (IF p = answered THEN 1 ELSE 0) ]_vars

\* deepseek and groq fail, anthropic answers, openai would have answered too
\* and is never invoked
C33_Witness ==
    /\ last.op = "_call_ai_provider"
    /\ last.ret = "anthropic"
    /\ last.trace = << "deepseek", "groq", "anthropic" >>
    /\ "openai" \in last.working /\ "openai" \in ai_service.providers
    /\ C33_Count(ai_service.provider_stats, "deepseek", "failure") >= 1
    /\ C33_Count(ai_service.provider_stats, "groq", "failure") >= 1
    /\ C33_Count(ai_service.provider_stats, "openai", "total_calls") = 0

----------------------------------------------------------------------------
\* C34: a platform's consecutive_errors counts the error responses other
\* than 429 observed since its last successful response: each such error
\* adds one, a success sets it to 0, and a 429 leaves it as it was and adds
\* one to rate_limit_count, which never goes down.
C34_Health(health, platform) ==
    IF platform \in DOMAIN health THEN health[platform]
    ELSE [ consecutive_errors |-> 0, rate_limit_count |-> 0 ]

C34_ErrorsSinceSuccess ==
    [][ \A platform \in { "tiktok", "instagram" } :
          LET before == C34_Health(platform_health, platform)
              after == C34_Health(platform_health', platform)
              observed == last'.op = "monitor_platform_response"
                              /\ last'.platform = platform
          IN  /\ after.rate_limit_count >= before.rate_limit_count
              /\ after.rate_limit_count =
                     before.rate_limit_count
                       + (IF observed /\ last'.status = "rate_limited" THEN 1 ELSE 0)
              /\ after.consecutive_errors =
                     IF observed /\ last'.status = "success" THEN 0
                     ELSE IF observed /\ last'.status = "error"
                       THEN before.consecutive_errors + 1
                     ELSE before.consecutive_errors ]_vars

\* two errors in a row, then a 429 that left the count at two
C34_Witness ==
    /\ last.op = "monitor_platform_response"
    /\ last.status = "rate_limited"
    /\ last.platform = "tiktok"
    /\ platform_health["tiktok"].consecutive_errors = 2
    /\ platform_health["tiktok"].rate_limit_count = 1

----------------------------------------------------------------------------
\* C35: for the verdict and the risk score of any assessment, the level
\* _parse_risk_level gives a PHASE_1 account is at least as severe as the
\* one it gives a PHASE_2 account, and that one at least as severe as the
\* one for PHASE_3 (green < yellow < red).
C35_Severity(level) ==
    CASE level = "green" -> 0 [] level = "yellow" -> 1 [] level = "red" -> 2

C35_Level(phase) ==
    C35_Severity(ParseRiskLevel(last.llm.dict, [ risk_score |-> last.risk_score ],
                                phase))

C35_ToleranceWidensWithPhase ==
    last.op = "assess_action_risk" /\ last.assessment.kind = "assessment" =>
        /\ C35_Level("phase_1") >= C35_Level("phase_2")
        /\ C35_Level("phase_2") >= C35_Level("phase_3")

----------------------------------------------------------------------------
\* C36: an execute_action call with force_execute set creates no approval
\* request and never answers approval_required; whenever the assessment was
\* produced, at any level, the call goes on to the delay and the break
\* check, and, unless a break is due or the platform is unsupported, to the
\* platform execution.
C36_Steps(trace) == { trace[i] : i \in DOMAIN trace }

C36_ForceSkipsApproval ==
    [][ last'.op = "execute_action" /\ last'.force =>
          /\ approval_requests' = approval_requests
          /\ pending_approvals' = pending_approvals
          /\ last'.status # "approval_required"
          /\ "request_approval" \notin C36_Steps(last'.trace)
          /\ last'.assessment.kind = "assessment" =>
                 /\ { "calculate_optimal_delay", "should_take_break" }
                        \subseteq C36_Steps(last'.trace)
                 /\ \/ last'.status = "break_required"
                    \/ accounts[last'.account].platform \notin Platforms
                    \/ "platform.execute_action" \in C36_Steps(last'.trace) ]_vars

\* a forced call assessed RED that was executed on the platform
C36_Witness ==
    /\ last.op = "execute_action"
    /\ last.force
    /\ last.assessment.kind = "assessment"
    /\ last.assessment.risk_level = "red"
    /\ last.status = "success"
    /\ "platform.execute_action" \in C36_Steps(last.trace)
    /\ approval_requests = << >>

----------------------------------------------------------------------------
----------------------------------------------------------------------------
\* C38: the backoff_seconds answered to a 429 counts the event it answers:
\* the k-th 429 of a platform within one hour is answered with
\* min(60 * 2^k, 3600), the first with 120, and no answer is below 120.
C38_EarlierThisHour(platform) ==
    LET events == HistoryOf(rate_limit_history, platform)
    IN  Cardinality({ i \in DOMAIN events : now - events[i] < 60 * 60 })

C38_BackoffCountsCurrentEvent ==
    [][ last'.op = "monitor_platform_response" /\ last'.status = "rate_limited" =>
          LET k == C38_EarlierThisHour(last'.platform) + 1
          IN  /\ last'.backoff_seconds = Min(60 * Pow2(k), 3600)
              /\ k = 1 => last'.backoff_seconds = 120
              /\ last'.backoff_seconds >= 120 ]_vars

\* 429s at 0, 30 and 60 minutes: the third is the second of its hour
C38_Witness ==
    /\ last.op = "monitor_platform_response"
    /\ last.status = "rate_limited"
    /\ platform_health[last.platform].rate_limit_count = 3
    /\ Len(HistoryOf(rate_limit_history, last.platform)) = 3
    /\ now - HistoryOf(rate_limit_history, last.platform)[1] = 60 * 60
    /\ last.backoff_seconds = 240

----------------------------------------------------------------------------
\* C39: after every completed request_approval, approve_action or
\* reject_action call, each approval id in the in-memory pending_approvals
\* map is the id of a stored request whose status is pending, and the map
\* holds no request that was approved or rejected.
C39_StoredStatuses(approval_id) ==
    { approval_requests[i].status :
        i \in { j \in DOMAIN approval_requests :
                  approval_requests[j].approval_id = approval_id } }

C39_MapHoldsOnlyPending ==
    \A approval_id \in DOMAIN pending_approvals :
        /\ "pending" \in C39_StoredStatuses(approval_id)
        /\ pending_approvals[approval_id].status = "pending"

\* one request resolved and gone from the map, another still in it
C39_Witness ==
    /\ last.op \in { "approve_action", "reject_action" }
    /\ last.ret = "true"
    /\ last.id \notin DOMAIN pending_approvals
    /\ C39_StoredStatuses(last.id) \subseteq { "approved", "rejected" }
    /\ DOMAIN pending_approvals # {}

----------------------------------------------------------------------------
\* C40: a handle_callback call is rejected as invalid when its state was
\* never issued; it is rejected as expired, and the state discarded, when
\* the state was issued more than ten minutes ago; and it is rejected as
\* invalid when an earlier callback with the same state has succeeded.
C40_Succeeded(state) ==
    \E d \in CallIds :
        /\ calls[d].op = "handle_callback" /\ calls[d].pc = "done"
        /\ calls[d].state = state /\ calls[d].ret = "success"

C40_StateIsSingleUse ==
    [][ \A c \in CallIds :
          calls[c].pc \in { "idle", "done" }
            /\ last'.op = "handle_callback" /\ last'.id = c =>
              LET state == last'.state
              IN  /\ state > issued =>
                         /\ last'.ret = "Invalid state parameter"
                         /\ auth_states' = auth_states
                  /\ state \in DOMAIN auth_states
                        /\ now - auth_states[state].created_at > StateLifetime =>
                         /\ last'.ret = "Authorization session expired"
                         /\ state \notin DOMAIN auth_states'
                  /\ C40_Succeeded(state) =>
                         /\ last'.ret = "Invalid state parameter"
                         /\ auth_states' = auth_states
                  /\ last'.ret = "suspended" =>
                         /\ state \in DOMAIN auth_states
                         /\ ~C40_Succeeded(state) ]_vars

\* a callback answered invalid for a state another callback succeeded with
C40_Witness ==
    /\ last.op = "handle_callback"
    /\ last.ret = "Invalid state parameter"
    /\ last.state <= issued
    /\ \E d \in CallIds \ { last.id } :
          /\ calls[d].op = "handle_callback"
          /\ calls[d].state = last.state
          /\ calls[d].ret = "success"

====
